---- MODULE Spec2Model ----
(***************************************************************************)
(* Student-community application: the database schema, constraints,        *)
(* row-level-security policies and triggers of the migration, and the      *)
(* request sequences issued by the Community, CommunityDetail and Connect  *)
(* pages.                                                                  *)
(*                                                                         *)
(* A request is sent with the session the client has at that moment, is    *)
(* served by the database in one atomic step, and its answer is handled by *)
(* the client in a later step; the session and the page shown may change   *)
(* in between.  Any number of handlers and selects wait on a client at the *)
(* same time, equal ones included: what is under way is held in bags.      *)
(* Text columns that are matched character by character (branch,           *)
(* branch_category) are sequences of one-character strings.                *)
(***************************************************************************)
EXTENDS Integers, Sequences, FiniteSets, Bags, TLC

\* ------------------------------------------------------------------ bounds

MaxCommunities == 23       \* rows of communities, the 22 seeded ones included
MaxProjects    == 1        \* rows of projects
MaxStartups    == 1        \* rows of startups
MaxCalls       == 2        \* generate_invite_code results kept in returned
MaxPosts       == 2        \* rows of community_posts
MaxFetches     == 2        \* selects of one kind a client has under way
MaxRuns        == 2        \* handlers that wait on a client at the same time

Users   == {1, 2}          \* auth.users ids of the accounts that may register
Clients == {"c1", "c2"}    \* browser sessions
Codes   == {71, 72}        \* values upper(substring(md5(random()) ...)) may yield

NULL     == 0              \* SQL NULL / JS null of an id or a code; no session
NullText == <<"NULL">>     \* SQL NULL of a text column held as a sequence

\* ids of the three membership tables are generated uuids: they never
\* coincide with an id of another table
MemberIdBase == 1000

\* ------------------------------------------------------------------ text

Law     == <<"L", "a", "w">>
Civil   == <<"C", "i", "v", "i", "l">>
General == <<"G", "e", "n", "e", "r", "a", "l">>

UpperCase ==
  <<"A", "B", "C", "D", "E", "F", "G", "H", "I", "J", "K", "L", "M", "N", "O",
    "P", "Q", "R", "S", "T", "U", "V", "W", "X", "Y", "Z">>
LowerCase ==
  <<"a", "b", "c", "d", "e", "f", "g", "h", "i", "j", "k", "l", "m", "n", "o",
    "p", "q", "r", "s", "t", "u", "v", "w", "x", "y", "z">>

\* lower() of one character
LowerOf(ch) ==
  IF \E i \in 1..26 : UpperCase[i] = ch
  THEN LowerCase[CHOOSE i \in 1..26 : UpperCase[i] = ch]
  ELSE ch

RECURSIVE LikeMatch(_, _)
\* s LIKE p with the wildcards % (any run) and _ (any one character) and
\* the escape character, after which the next character of p stands for
\* itself; both already case-folded.  A pattern that ends with the escape
\* character is an error of the statement: no pattern of the migration
\* ends so, and it matches nothing here.
LikeMatch(s, p) ==
  IF p = <<>> THEN s = <<>>
  ELSE IF Head(p) = "\\"
       THEN /\ Len(p) > 1
            /\ s # <<>>
            /\ Head(s) = p[2]
            /\ LikeMatch(Tail(s), Tail(Tail(p)))
  ELSE IF Head(p) = "%"
       THEN LikeMatch(s, Tail(p)) \/ (s # <<>> /\ LikeMatch(Tail(s), p))
  ELSE IF s = <<>> THEN FALSE
  ELSE /\ (Head(p) = "_" \/ Head(p) = Head(s))
       /\ LikeMatch(Tail(s), Tail(p))

Fold(s) == [i \in 1..Len(s) |-> LowerOf(s[i])]

\* s ILIKE p
ILike(s, p) == LikeMatch(Fold(s), Fold(p))

\* values of raw_user_meta_data->>'branch' a sign-up may carry: a category as
\* seeded, in another case, a part of several, text with the characters _,
\* % and the escape character, a branch no category holds, and none
Branches ==
  { Law, <<"L", "A", "W">>, <<"a", "w">>, <<"X">>, <<"L", "_", "w">>, <<"%">>,
    <<"L", "\\", "a", "w">>, <<"Z">>, NullText }

\* branch_category of the rows the migration seeds, in the order of its
\* INSERT
Categories ==
  <<
    <<"C", "o", "m", "p", "u", "t", "e", "r", " ", "S", "c", "i", "e", "n",
      "c", "e">>,
    <<"A", "I", "/", "M", "L">>,
    <<"D", "a", "t", "a", " ", "S", "c", "i", "e", "n", "c", "e">>,
    <<"S", "o", "f", "t", "w", "a", "r", "e", " ", "E", "n", "g", "i", "n",
      "e", "e", "r", "i", "n", "g">>,
    <<"C", "y", "b", "e", "r", "s", "e", "c", "u", "r", "i", "t", "y">>,
    <<"M", "e", "c", "h", "a", "n", "i", "c", "a", "l">>,
    <<"E", "l", "e", "c", "t", "r", "i", "c", "a", "l">>,
    <<"C", "i", "v", "i", "l">>,
    <<"C", "h", "e", "m", "i", "c", "a", "l">>,
    <<"U", "I", "/", "U", "X">>,
    <<"G", "r", "a", "p", "h", "i", "c", " ", "D", "e", "s", "i", "g", "n">>,
    <<"A", "r", "c", "h", "i", "t", "e", "c", "t", "u", "r", "e">>,
    <<"E", "n", "t", "r", "e", "p", "r", "e", "n", "e", "u", "r", "s", "h",
      "i", "p">>,
    <<"B", "u", "s", "i", "n", "e", "s", "s">>,
    <<"M", "a", "r", "k", "e", "t", "i", "n", "g">>,
    <<"B", "i", "o", "t", "e", "c", "h", "n", "o", "l", "o", "g", "y">>,
    <<"P", "h", "y", "s", "i", "c", "s">>,
    <<"C", "h", "e", "m", "i", "s", "t", "r", "y">>,
    <<"M", "e", "d", "i", "c", "i", "n", "e">>,
    <<"N", "u", "r", "s", "i", "n", "g">>,
    <<"L", "a", "w">>,
    <<"P", "u", "b", "l", "i", "c", " ", "P", "o", "l", "i", "c", "y">>
  >>

\* ------------------------------------------------------------------ state

VARIABLES
  profiles,            \* public.profiles: rows [id, branch]
  communities,         \* public.communities
  community_members,   \* public.community_members
  projects,            \* public.projects
  project_members,     \* public.project_members
  startups,            \* public.startups
  startup_members,     \* public.startup_members
  community_posts,     \* public.community_posts
  user,                \* per client: useAuth().user, and the session's auth.uid()
  route,               \* per client: the page shown, and the chat's community id
  runs,                \* per client: the handlers that wait for a request
  toast,               \* per client: the notification shown last
  joinedProjectIds,    \* per client: Connect's joinedProjectIds
  joinedStartupIds,    \* per client: Connect's joinedStartupIds
  fjs,                 \* per client: the fetchJoinedStatus calls under way
  publicCommunities,   \* per client: Community's publicCommunities
  userCommunities,     \* per client: Community's userCommunities
  fc,                  \* per client: the list selects of Community under way
  community,           \* per client: CommunityDetail's community (its id)
  fcom,                \* per client: CommunityDetail's community selects
  posts,               \* per client: CommunityDetail's posts
  fp,                  \* per client: fetchPosts requests not yet served
  fr,                  \* per client: fetchPosts results not yet received
  sub,                 \* per client: the state of the realtime channel
  notes,               \* per client: insert notifications not yet received
  refused,             \* the last direct request refused or changing no row
  returned,            \* the codes generate_invite_code has returned, in order
  viaCreate            \* ids of the communities stored by handleCreate

db    == <<profiles, communities, community_members, projects, project_members,
           startups, startup_members>>
page  == <<user, route, runs, toast>>
conn  == <<joinedProjectIds, joinedStartupIds, fjs>>
lists == <<publicCommunities, userCommunities, fc>>
chat  == <<community, fcom, posts, fp, fr, sub, notes>>
ghost == <<refused, returned, viaCreate>>
vars  == <<profiles, communities, community_members, projects, project_members,
           startups, startup_members, community_posts, user, route, runs,
           toast, joinedProjectIds, joinedStartupIds, fjs, publicCommunities,
           userCommunities, fc, community, fcom, posts, fp, fr, sub, notes,
           refused, returned, viaCreate>>

\* ------------------------------------------------------------------ SQL

\* a = b in SQL is true only when neither side is NULL
SqlEq(a, b) == a # NULL /\ b # NULL /\ a = b

Ids(table) == {r.id : r \in table}

\* gen_random_uuid() for a membership table: an id no row of the table
\* holds.  Which one is immaterial, so it is fixed by the row's content and
\* by the number of rows that already hold the same pair.
NewMemberId(copies, eid, uid) ==
  MemberIdBase * (1 + copies) + 10 * eid + uid

\* gen_random_uuid() for communities, projects, startups (never deleted)
NewEntityId(table) == Cardinality(table) + 1

\* a default community as the migration seeds it
SeedCommunity(id, category) ==
  [id |-> id, is_public |-> TRUE, is_default |-> TRUE,
   branch_category |-> category, invite_code |-> NULL, creator_id |-> NULL]

\* the 22 default communities the migration seeds
SeedCommunities == { SeedCommunity(i, Categories[i]) : i \in 1..Len(Categories) }

\* the seeded community of a category
DefaultOf(category) ==
  (CHOOSE c \in SeedCommunities : c.branch_category = category).id

\* the communities the users of a scenario act on: the default community of
\* Law, and with all = TRUE that of Civil too, and every community stored
\* since the migration
Acted(all) ==
  {DefaultOf(Law)} \cup (IF all THEN {DefaultOf(Civil)} ELSE {})
    \cup {c.id : c \in {x \in communities : x.is_default = FALSE}}

\* ------------------------------------------------------------------ policies
\* auth is auth.uid(): the caller's user id, NULL for an anonymous request.
\* An unqualified column name inside a policy's subquery is resolved
\* against the subquery's own FROM list first.  The SELECT policy of
\* community_members reads community_members itself; a server that refuses
\* to expand such a policy answers the request with an error, which is the
\* failed-request branch every page action has, and the only outcome of a
\* DELETE on community_members.

\* faulty variant of the policy below: WITH CHECK (auth.uid() IS NOT NULL)
CommunitiesInsertAnyAuthenticated(auth, row) == auth # NULL

\* "Authenticated users can create communities"
CommunitiesInsertCheck(auth, row) == SqlEq(auth, row.creator_id)

\* faulty variant of the policy below: the subquery asks only for some
\* membership of the caller
CommunitiesSelectAnyMember(auth, row) ==
  \/ row.is_public = TRUE
  \/ \E m \in community_members : SqlEq(m.user_id, auth)

\* "Public communities are viewable by everyone": in the subquery both
\* community_id and id are columns of community_members
CommunitiesSelectUsing(auth, row) ==
  \/ row.is_public = TRUE
  \/ \E m \in community_members :
       SqlEq(m.community_id, m.id) /\ SqlEq(m.user_id, auth)

\* "Community members are viewable by community members": in the subquery
\* community_id is cm.community_id
CommunityMembersSelectUsing(auth, row) ==
  \E cm \in community_members :
    SqlEq(cm.community_id, cm.community_id) /\ SqlEq(cm.user_id, auth)

\* "Users can join communities" / "Users can leave communities"
CommunityMembersInsertCheck(auth, row) == SqlEq(auth, row.user_id)
CommunityMembersDeleteUsing(auth, row) == SqlEq(auth, row.user_id)

\* "Authenticated users can create projects"
ProjectsInsertCheck(auth, row) == SqlEq(auth, row.host_id)

\* faulty variant of "Users can leave projects": USING (auth.uid() IS NOT NULL)
ProjectMembersDeleteAnyAuthenticated(auth, row) == auth # NULL

\* "Users can join projects" / "Users can leave projects"
ProjectMembersInsertCheck(auth, row) == SqlEq(auth, row.user_id)
ProjectMembersDeleteUsing(auth, row) == SqlEq(auth, row.user_id)

\* "Authenticated users can create startups"
StartupsInsertCheck(auth, row) == SqlEq(auth, row.founder_id)

\* "Users can join startups" / "Users can leave startups"
StartupMembersInsertCheck(auth, row) == SqlEq(auth, row.user_id)
StartupMembersDeleteUsing(auth, row) == SqlEq(auth, row.user_id)

\* The UPDATE policies have a USING clause and no WITH CHECK clause: the
\* USING expression is then applied to the row as updated, too.

\* "Users can update own profile"
ProfilesUpdateUsing(auth, row) == SqlEq(auth, row.id)
ProfilesUpdateCheck(auth, row) == ProfilesUpdateUsing(auth, row)

\* "Creators can update own communities"
CommunitiesUpdateUsing(auth, row) == SqlEq(auth, row.creator_id)
CommunitiesUpdateCheck(auth, row) == CommunitiesUpdateUsing(auth, row)

\* "Hosts can update own projects"
ProjectsUpdateUsing(auth, row) == SqlEq(auth, row.host_id)

\* faulty variant of the check below: the row as updated is not examined
ProjectsUpdateNoCheck(auth, row) == TRUE

ProjectsUpdateCheck(auth, row) == ProjectsUpdateUsing(auth, row)

\* "Founders can update own startups"
StartupsUpdateUsing(auth, row) == SqlEq(auth, row.founder_id)
StartupsUpdateCheck(auth, row) == StartupsUpdateUsing(auth, row)

\* community_posts: a post is created by a member of its community, as
\* oneself, and is visible to the members of its community.

\* faulty variant of the check below: membership is not asked for
CommunityPostsInsertAuthorOnly(auth, row) == SqlEq(auth, row.user_id)

CommunityPostsInsertCheck(auth, row) ==
  /\ SqlEq(auth, row.user_id)
  /\ \E m \in community_members :
       SqlEq(m.community_id, row.community_id) /\ SqlEq(m.user_id, auth)

CommunityPostsSelectUsing(auth, row) ==
  \E m \in community_members :
    SqlEq(m.community_id, row.community_id) /\ SqlEq(m.user_id, auth)

\* ------------------------------------------------------------------ constraints

\* faulty variant of the constraint below: only the primary key is enforced
CommunityMembersPrimaryKey(row) == \A m \in community_members : m.id # row.id

\* UNIQUE (community_id, user_id)
CommunityMembersUnique(row) ==
  ~ \E m \in community_members :
      m.community_id = row.community_id /\ m.user_id = row.user_id

\* UNIQUE (project_id, user_id)
ProjectMembersUnique(row) ==
  ~ \E m \in project_members :
      m.project_id = row.project_id /\ m.user_id = row.user_id

\* UNIQUE (startup_id, user_id)
StartupMembersUnique(row) ==
  ~ \E m \in startup_members :
      m.startup_id = row.startup_id /\ m.user_id = row.user_id

\* invite_code TEXT UNIQUE: NULLs never conflict
CommunitiesInviteCodeUnique(row) ==
  ~ \E c \in communities : SqlEq(c.invite_code, row.invite_code)

\* ------------------------------------------------------------------ statements
\* The outcome of a statement: "ok", or the error that aborts it.  Row
\* security is checked before the row is stored, NOT NULL and UNIQUE when it
\* is stored, foreign keys at the end of the statement.

\* INSERT INTO communities that does not ask for the new row
InsertCommunityStatus(auth, row) ==
  IF ~ CommunitiesInsertCheck(auth, row) THEN "rls"
  ELSE IF ~ CommunitiesInviteCodeUnique(row) THEN "unique"
  ELSE IF row.creator_id \notin Ids(profiles) THEN "fk"
  ELSE "ok"

InsertCommunityMemberStatus(auth, row) ==
  IF ~ CommunityMembersInsertCheck(auth, row) THEN "rls"
  ELSE IF row.community_id = NULL THEN "not_null"
  ELSE IF ~ CommunityMembersUnique(row) THEN "unique"
  ELSE IF \/ row.community_id \notin Ids(communities)
          \/ row.user_id \notin Ids(profiles) THEN "fk"
  ELSE "ok"

InsertProjectStatus(auth, row) ==
  IF ~ ProjectsInsertCheck(auth, row) THEN "rls"
  ELSE IF row.host_id \notin Ids(profiles) THEN "fk"
  ELSE "ok"

InsertProjectMemberStatus(auth, row) ==
  IF ~ ProjectMembersInsertCheck(auth, row) THEN "rls"
  ELSE IF row.project_id = NULL THEN "not_null"
  ELSE IF ~ ProjectMembersUnique(row) THEN "unique"
  ELSE IF \/ row.project_id \notin Ids(projects)
          \/ row.user_id \notin Ids(profiles) THEN "fk"
  ELSE "ok"

InsertStartupStatus(auth, row) ==
  IF ~ StartupsInsertCheck(auth, row) THEN "rls"
  ELSE IF row.founder_id \notin Ids(profiles) THEN "fk"
  ELSE "ok"

InsertStartupMemberStatus(auth, row) ==
  IF ~ StartupMembersInsertCheck(auth, row) THEN "rls"
  ELSE IF row.startup_id = NULL THEN "not_null"
  ELSE IF ~ StartupMembersUnique(row) THEN "unique"
  ELSE IF \/ row.startup_id \notin Ids(startups)
          \/ row.user_id \notin Ids(profiles) THEN "fk"
  ELSE "ok"

\* rows
CommunityRow(id, isPublic, code, creator) ==
  [id |-> id, is_public |-> isPublic, is_default |-> FALSE,
   branch_category |-> NullText, invite_code |-> code, creator_id |-> creator]
CommunityMemberRow(cid, uid) ==
  [id |-> NewMemberId(Cardinality({m \in community_members :
                         m.community_id = cid /\ m.user_id = uid}), cid, uid),
   community_id |-> cid, user_id |-> uid]
ProjectMemberRow(pid, uid, ptype) ==
  [id |-> NewMemberId(Cardinality({m \in project_members :
                         m.project_id = pid /\ m.user_id = uid}), pid, uid),
   project_id |-> pid, user_id |-> uid, participation_type |-> ptype]
StartupMemberRow(sid, uid, role) ==
  [id |-> NewMemberId(Cardinality({m \in startup_members :
                         m.startup_id = sid /\ m.user_id = uid}), sid, uid),
   startup_id |-> sid, user_id |-> uid, role |-> role]

\* the rows of communities the table's SELECT policy admits for the caller,
\* the policy evaluated as it is written
VisibleCommunities(auth) ==
  {c \in communities : CommunitiesSelectUsing(auth, c)}

\* SELECT ... FROM communities as the caller receives it.  The SELECT policy
\* of the table reads community_members, whose own SELECT policy reads
\* community_members again: the server cannot expand it and answers every
\* caller with the error 42P17.  No row is returned.
SelectCommunities(auth) == {}

\* INSERT INTO community_posts
InsertPostStatus(auth, row) ==
  IF ~ CommunityPostsInsertCheck(auth, row) THEN "rls"
  ELSE IF row.community_id \notin Ids(communities)
          \/ row.user_id \notin Ids(profiles) THEN "fk"
  ELSE "ok"

\* the post as stored: created_at is the time of the insert
PostRow(cid, uid) ==
  [id |-> NewEntityId(community_posts), community_id |-> cid, user_id |-> uid,
   created_at |-> Cardinality(community_posts) + 1]

\* .order('created_at', { ascending: true }) of a set of rows
RECURSIVE OrderByCreatedAt(_)
OrderByCreatedAt(rows) ==
  IF rows = {} THEN <<>>
  ELSE LET first == CHOOSE r \in rows :
                      \A q \in rows : r.created_at < q.created_at \/ r = q
                                       \/ (r.created_at = q.created_at
                                           /\ r.id < q.id)
       IN <<first>> \o OrderByCreatedAt(rows \ {first})

\* fetchPosts' query as the caller sees it
SelectPosts(auth, cid) ==
  OrderByCreatedAt({p \in community_posts :
                      CommunityPostsSelectUsing(auth, p) /\ p.community_id = cid})

\* faulty variant of the select below: the rows the table's SELECT policy
\* admits for the caller, were the policy evaluated as it is written
SelectCommunityMembersAsWritten(auth) ==
  {m \in community_members : CommunityMembersSelectUsing(auth, m)}

\* SELECT ... FROM community_members as the caller receives it.  The SELECT
\* policy of the table reads community_members itself: the server cannot
\* expand it and answers every caller with the error 42P17 (infinite
\* recursion detected in policy for relation "community_members").  No row
\* is returned.
SelectCommunityMembers(auth) == {}

\* ------------------------------------------------------------------ initial state
\* The database as the migration leaves it; every client on the Community
\* page, logged out, the page's effect having just run.

Page(name)  == [page |-> name, id |-> NULL]
Chat(cid)   == [page |-> "chat", id |-> cid]

\* one more request r is under way beside those of b, equal ones included
Add(b, r) == b (+) SetToBag({r})

\* one request r of b is no longer under way
Drop(b, r) == b (-) SetToBag({r})

\* one request r of b goes on as new
Replace(b, r, new) == Add(Drop(b, r), new)

\* a select of Community as it is sent: fetchCommunities ("pub") or
\* fetchUserCommunities ("mine"), called while u is the user
ListRequest(kind, u) ==
  [kind |-> kind, user |-> u, at |-> "sent", ok |-> TRUE, data |-> {}]

\* the effect of Community: fetchCommunities(), and fetchUserCommunities()
\* when a user is logged in
ListFetch(u) ==
  SetToBag({ListRequest("pub", u)}
             \cup (IF u # NULL THEN {ListRequest("mine", u)} ELSE {}))

\* the note kept of a direct request that changed no row
Refusal(op, auth) == [op |-> op, anon |-> auth = NULL]

Init ==
  /\ profiles = {}
  /\ communities = SeedCommunities
  /\ community_members = {}
  /\ projects = {}
  /\ project_members = {}
  /\ startups = {}
  /\ startup_members = {}
  /\ community_posts = {}
  /\ user = [c \in Clients |-> NULL]
  /\ route = [c \in Clients |-> Page("community")]
  /\ runs = [c \in Clients |-> EmptyBag]
  /\ toast = [c \in Clients |-> "none"]
  /\ joinedProjectIds = [c \in Clients |-> {}]
  /\ joinedStartupIds = [c \in Clients |-> {}]
  /\ fjs = [c \in Clients |-> EmptyBag]
  /\ publicCommunities = [c \in Clients |-> {}]
  /\ userCommunities = [c \in Clients |-> {}]
  /\ fc = [c \in Clients |-> ListFetch(NULL)]
  /\ community = [c \in Clients |-> NULL]
  /\ fcom = [c \in Clients |-> EmptyBag]
  /\ posts = [c \in Clients |-> <<>>]
  /\ fp = [c \in Clients |-> EmptyBag]
  /\ fr = [c \in Clients |-> EmptyBag]
  /\ sub = [c \in Clients |-> "off"]
  /\ notes = [c \in Clients |-> 0]
  /\ refused = [op |-> "none", anon |-> FALSE]
  /\ returned = <<>>
  /\ viaCreate = {}

\* ------------------------------------------------------------------ accounts

\* auto_join_default_community: the default communities its SELECT matches
MatchingDefaults(branch) ==
  { c \in communities :
      /\ c.is_default = TRUE
      /\ c.branch_category # NullText
      /\ \/ c.branch_category = branch
         \/ ILike(c.branch_category, <<"%">> \o branch \o <<"%">>) }

\* auto_join_default_community: INSERT ... ON CONFLICT DO NOTHING
AutoJoin(uid, c) ==
  IF CommunityMembersUnique(CommunityMemberRow(c.id, uid))
  THEN community_members \cup {CommunityMemberRow(c.id, uid)}
  ELSE community_members

\* A new account: handle_new_user stores the profile, and the profile's
\* AFTER INSERT trigger joins one matching default community (LIMIT 1 without
\* ORDER BY: any of them).  metaBranch is raw_user_meta_data->>'branch'.
SignUp(u, metaBranch) ==
  /\ u \notin Ids(profiles)
  /\ LET branch == IF metaBranch = NullText THEN General ELSE metaBranch
     IN /\ profiles' = profiles \cup {[id |-> u, branch |-> branch]}
        /\ IF MatchingDefaults(branch) = {}
           THEN community_members' = community_members
           ELSE \E c \in MatchingDefaults(branch) :
                  community_members' = AutoJoin(u, c)
  /\ UNCHANGED <<communities, projects, project_members, startups,
                 startup_members, page, conn, ghost,
                 community_posts, lists, chat>>

\* ------------------------------------------------------------------ direct requests
\* Any caller may send any row to the REST endpoint of a table; the policies
\* and the constraints decide.  auth is NULL or a registered account.

Callers == Ids(profiles) \cup {NULL}

ApiInsertCommunity(auth, isPublic, code, creator) ==
  /\ Cardinality(communities) < MaxCommunities
  /\ LET row == CommunityRow(NewEntityId(communities), isPublic, code, creator)
         st  == InsertCommunityStatus(auth, row)
     IN /\ communities' = IF st = "ok" THEN communities \cup {row} ELSE communities
        /\ refused' = IF st = "rls" THEN Refusal("insert_communities", auth) ELSE refused
  /\ UNCHANGED <<profiles, community_members, projects, project_members,
                 startups, startup_members, page, conn, returned, viaCreate,
                 community_posts, lists, chat>>

ApiInsertCommunityMember(auth, cid, uid) ==
  /\ LET row == CommunityMemberRow(cid, uid)
         st  == InsertCommunityMemberStatus(auth, row)
     IN /\ community_members' =
             IF st = "ok" THEN community_members \cup {row} ELSE community_members
        /\ refused' = IF st = "rls" THEN Refusal("insert_community_members", auth) ELSE refused
  /\ UNCHANGED <<profiles, communities, projects, project_members, startups,
                 startup_members, page, conn, returned, viaCreate,
                 community_posts, lists, chat>>

\* DELETE FROM community_members WHERE id = m.id.  The statement reads the
\* table, so the SELECT policy of community_members is applied to it as
\* well, and that policy reads community_members itself: the server cannot
\* expand it and answers every caller with the error 42P17 (infinite
\* recursion detected in policy for relation "community_members").  No row
\* is deleted.
ApiDeleteCommunityMember(auth, m) ==
  /\ m \in community_members
  /\ community_members' = community_members
  /\ refused' = Refusal("delete_community_members", auth)
  /\ UNCHANGED <<profiles, communities, projects, project_members, startups,
                 startup_members, page, conn, returned, viaCreate,
                 community_posts, lists, chat>>


ApiInsertProject(auth, host) ==
  /\ Cardinality(projects) < MaxProjects
  /\ LET row == [id |-> NewEntityId(projects), host_id |-> host,
                 status |-> "open"]
         st  == InsertProjectStatus(auth, row)
     IN /\ projects' = IF st = "ok" THEN projects \cup {row} ELSE projects
        /\ refused' = IF st = "rls" THEN Refusal("insert_projects", auth) ELSE refused
  /\ UNCHANGED <<profiles, communities, community_members, project_members,
                 startups, startup_members, page, conn, returned, viaCreate,
                 community_posts, lists, chat>>

ApiInsertProjectMember(auth, pid, uid, ptype) ==
  /\ LET row == ProjectMemberRow(pid, uid, ptype)
         st  == InsertProjectMemberStatus(auth, row)
     IN /\ project_members' =
             IF st = "ok" THEN project_members \cup {row} ELSE project_members
        /\ refused' = IF st = "rls" THEN Refusal("insert_project_members", auth) ELSE refused
  /\ UNCHANGED <<profiles, communities, community_members, projects, startups,
                 startup_members, page, conn, returned, viaCreate,
                 community_posts, lists, chat>>

ApiDeleteProjectMember(auth, m) ==
  /\ m \in project_members
  /\ LET hit == ProjectMembersDeleteUsing(auth, m)
     IN /\ project_members' =
             IF hit THEN project_members \ {m} ELSE project_members
        /\ refused' = IF hit THEN refused ELSE Refusal("delete_project_members", auth)
  /\ UNCHANGED <<profiles, communities, community_members, projects, startups,
                 startup_members, page, conn, returned, viaCreate,
                 community_posts, lists, chat>>

ApiInsertStartup(auth, founder) ==
  /\ Cardinality(startups) < MaxStartups
  /\ LET row == [id |-> NewEntityId(startups), founder_id |-> founder,
                 status |-> "active"]
         st  == InsertStartupStatus(auth, row)
     IN /\ startups' = IF st = "ok" THEN startups \cup {row} ELSE startups
        /\ refused' = IF st = "rls" THEN Refusal("insert_startups", auth) ELSE refused
  /\ UNCHANGED <<profiles, communities, community_members, projects,
                 project_members, startup_members, page, conn, returned,
                 viaCreate,
                 community_posts, lists, chat>>

ApiInsertStartupMember(auth, sid, uid, role) ==
  /\ LET row == StartupMemberRow(sid, uid, role)
         st  == InsertStartupMemberStatus(auth, row)
     IN /\ startup_members' =
             IF st = "ok" THEN startup_members \cup {row} ELSE startup_members
        /\ refused' = IF st = "rls" THEN Refusal("insert_startup_members", auth) ELSE refused
  /\ UNCHANGED <<profiles, communities, community_members, projects,
                 project_members, startups, page, conn, returned, viaCreate,
                 community_posts, lists, chat>>

ApiDeleteStartupMember(auth, m) ==
  /\ m \in startup_members
  /\ LET hit == StartupMembersDeleteUsing(auth, m)
     IN /\ startup_members' =
             IF hit THEN startup_members \ {m} ELSE startup_members
        /\ refused' = IF hit THEN refused ELSE Refusal("delete_startup_members", auth)
  /\ UNCHANGED <<profiles, communities, community_members, projects,
                 project_members, startups, page, conn, returned, viaCreate,
                 community_posts, lists, chat>>

AnyUser == Users \cup {NULL}

\* UPDATE ... WHERE id = the row's id.  A row the caller may not see or may
\* not update is skipped without an error; a row that fails the check once
\* updated, or breaks a constraint, fails the request.  status is "ok" when
\* the row is replaced.
UpdateStatus(hit, check, notNull, fk) ==
  IF ~ hit THEN "no_rows"
  ELSE IF ~ check THEN "rls"
  ELSE IF ~ notNull THEN "not_null"
  ELSE IF ~ fk THEN "fk"
  ELSE "ok"

\* profiles: the primary key and the branch are set
ApiUpdateProfile(auth, p, newId, newBranch) ==
  /\ p \in profiles
  /\ LET new == [p EXCEPT !.id = newId, !.branch = newBranch]
         st  == UpdateStatus(ProfilesUpdateUsing(auth, p),
                             ProfilesUpdateCheck(auth, new),
                             newId # NULL,
                             newId \in Users
                               /\ (newId # p.id => newId \notin Ids(profiles)))
     IN /\ profiles' = IF st = "ok" THEN (profiles \ {p}) \cup {new} ELSE profiles
        /\ refused' = IF st \in {"no_rows", "rls"}
                      THEN Refusal("update_profiles", auth) ELSE refused
  /\ UNCHANGED <<communities, community_members, projects, project_members,
                 startups, startup_members, page, conn, returned, viaCreate,
                 community_posts, lists, chat>>

\* communities: creator_id and is_public are set.  The request filters by
\* id, so the SELECT policy of communities is applied to it as well; that
\* policy reads community_members, whose own SELECT policy reads
\* community_members again: the server cannot expand it and answers every
\* caller with the error 42P17.  No row is updated.
ApiUpdateCommunity(auth, x, newCreator, newPublic) ==
  /\ x \in communities
  /\ communities' = communities
  /\ refused' = Refusal("update_communities", auth)
  /\ UNCHANGED <<profiles, community_members, projects, project_members,
                 startups, startup_members, page, conn, returned, viaCreate,
                 community_posts, lists, chat>>

\* projects: host_id and status are set
ApiUpdateProject(auth, x, newHost, newStatus) ==
  /\ x \in projects
  /\ LET new == [x EXCEPT !.host_id = newHost, !.status = newStatus]
         st  == UpdateStatus(ProjectsUpdateUsing(auth, x),
                             ProjectsUpdateCheck(auth, new),
                             newHost # NULL,
                             newHost \in Ids(profiles))
     IN /\ projects' = IF st = "ok" THEN (projects \ {x}) \cup {new} ELSE projects
        /\ refused' = IF st \in {"no_rows", "rls"}
                      THEN Refusal("update_projects", auth) ELSE refused
  /\ UNCHANGED <<profiles, communities, community_members, project_members,
                 startups, startup_members, page, conn, returned, viaCreate,
                 community_posts, lists, chat>>

\* startups: founder_id and status are set
ApiUpdateStartup(auth, x, newFounder, newStatus) ==
  /\ x \in startups
  /\ LET new == [x EXCEPT !.founder_id = newFounder, !.status = newStatus]
         st  == UpdateStatus(StartupsUpdateUsing(auth, x),
                             StartupsUpdateCheck(auth, new),
                             newFounder # NULL,
                             newFounder \in Ids(profiles))
     IN /\ startups' = IF st = "ok" THEN (startups \ {x}) \cup {new} ELSE startups
        /\ refused' = IF st \in {"no_rows", "rls"}
                      THEN Refusal("update_startups", auth) ELSE refused
  /\ UNCHANGED <<profiles, communities, community_members, projects,
                 project_members, startup_members, page, conn, returned,
                 viaCreate, community_posts, lists, chat>>

\* SELECT ... FROM community_members by a caller: the server answers with the
\* error 42P17 and no row
ApiSelectCommunityMembers(auth) ==
  /\ refused' = Refusal("select_community_members", auth)
  /\ UNCHANGED <<db, community_posts, page, conn, returned, viaCreate, lists,
                 chat>>

\* The membership tables under direct requests.  Communities, projects and
\* startups are created by their owners; any caller may name any user in a
\* membership insert and any row in a membership delete, and may select
\* the community memberships.  The communities
\* named are the default community of Law and those stored by a request.
NextMembers ==
  \/ \E u \in Users : SignUp(u, Law)
  \/ \E a \in Ids(profiles), p \in BOOLEAN : ApiInsertCommunity(a, p, NULL, a)
  \/ \E a \in Callers, cid \in Acted(FALSE), u \in AnyUser :
       ApiInsertCommunityMember(a, cid, u)
  \/ \E a \in Callers, m \in community_members : ApiDeleteCommunityMember(a, m)
  \/ \E a \in Callers : ApiSelectCommunityMembers(a)
  \/ \E a \in Ids(profiles) : ApiInsertProject(a, a)
  \/ \E a \in Callers, pid \in Ids(projects), u \in AnyUser :
       ApiInsertProjectMember(a, pid, u, "participant")
  \/ \E a \in Callers, m \in project_members : ApiDeleteProjectMember(a, m)
  \/ \E a \in Ids(profiles) : ApiInsertStartup(a, a)
  \/ \E a \in Callers, sid \in Ids(startups), u \in AnyUser :
       ApiInsertStartupMember(a, sid, u, "member")
  \/ \E a \in Callers, m \in startup_members : ApiDeleteStartupMember(a, m)

SpecMembers == Init /\ [][NextMembers]_vars

\* Communities, projects and startups under direct requests: any caller may
\* name any owner.
NextOwners ==
  \/ \E u \in Users : SignUp(u, NullText)
  \/ \E a \in Callers, p \in BOOLEAN, k \in Codes \cup {NULL}, o \in AnyUser :
       ApiInsertCommunity(a, p, k, o)
  \/ \E a \in Callers, o \in AnyUser : ApiInsertProject(a, o)
  \/ \E a \in Callers, o \in AnyUser : ApiInsertStartup(a, o)

SpecOwners == Init /\ [][NextOwners]_vars

\* Rows stored by their owners, then updates by any caller naming any owner
\* and any status.
NextUpdates ==
  \/ \E u \in Users : SignUp(u, NullText)
  \/ \E a \in Ids(profiles), p \in BOOLEAN : ApiInsertCommunity(a, p, NULL, a)
  \/ \E a \in Ids(profiles) : ApiInsertProject(a, a)
  \/ \E a \in Ids(profiles) : ApiInsertStartup(a, a)
  \/ \E a \in Callers, p \in profiles, i \in AnyUser, b \in {General, Law} :
       ApiUpdateProfile(a, p, i, b)
  \/ \E a \in Callers, x \in communities, o \in AnyUser, p \in BOOLEAN :
       x.id \in Acted(FALSE) /\ ApiUpdateCommunity(a, x, o, p)
  \/ \E a \in Callers, x \in projects, o \in AnyUser :
       \E s \in {"open", "closed"} : ApiUpdateProject(a, x, o, s)
  \/ \E a \in Callers, x \in startups, o \in AnyUser :
       \E s \in {"active", "closed"} : ApiUpdateStartup(a, x, o, s)

SpecUpdates == Init /\ [][NextUpdates]_vars

\* Accounts registering with any branch; a user may join the default
\* communities of Law and Civil with a request, before or after, and ask to
\* leave a community.
NextSignUp ==
  \/ \E u \in Users, b \in Branches : SignUp(u, b)
  \/ \E a \in Ids(profiles), cid \in Acted(TRUE) :
       ApiInsertCommunityMember(a, cid, a)
  \/ \E a \in Ids(profiles), m \in community_members :
       ApiDeleteCommunityMember(a, m)

SpecSignUp == Init /\ [][NextSignUp]_vars

\* ------------------------------------------------------------------ mounting

\* room for the requests b of one kind to be under way on a client
Room(b) == BagCardinality(b) <= MaxFetches

\* The Community page is mounted by client c with user u: its lists start
\* empty and its effect starts the fetches.
MountLists(c, u) ==
  /\ publicCommunities' = [publicCommunities EXCEPT ![c] = {}]
  /\ userCommunities' = [userCommunities EXCEPT ![c] = {}]
  /\ fc' = [fc EXCEPT ![c] = ListFetch(u)]

\* The Community page is left: its state is gone, and what its fetches
\* return is dropped.
UnmountLists(c) ==
  /\ publicCommunities' = [publicCommunities EXCEPT ![c] = {}]
  /\ userCommunities' = [userCommunities EXCEPT ![c] = {}]
  /\ fc' = [fc EXCEPT ![c] = EmptyBag]

\* The effect of Community runs again for another user: the lists stay as
\* they are, the selects sent before are still answered, and the effect
\* sends its selects once more, whatever is under way.
RefetchLists(c, u) ==
  LET all == fc[c] (+) ListFetch(u)
      \* the selects of kind k among them
      kind(k) == [r \in {x \in BagToSet(all) : x.kind = k} |-> all[r]]
  IN /\ \A k \in {"pub", "mine"} : Room(kind(k))
     /\ fc' = [fc EXCEPT ![c] = all]
     /\ UNCHANGED <<publicCommunities, userCommunities>>

\* a fetchJoinedStatus() call as it starts: its first select is sent for
\* the user of the closure
JoinedRun(u) == [at |-> "projects", user |-> u, ok |-> TRUE, data |-> {}]

\* fetchJoinedStatus(), called without await: one more call under way; the
\* calls made before go on
StartFetch(c, u) == [fjs EXCEPT ![c] = Add(@, JoinedRun(u))]

RoomForRun(c, u) == Room(Add(fjs[c], JoinedRun(u)))

\* The Connect page is mounted by client c with user u: empty joined sets,
\* and the effect on [user] calls fetchJoinedStatus() when u is set.
MountConnect(c, u) ==
  /\ joinedProjectIds' = [joinedProjectIds EXCEPT ![c] = {}]
  /\ joinedStartupIds' = [joinedStartupIds EXCEPT ![c] = {}]
  /\ fjs' = [fjs EXCEPT ![c] =
              IF u # NULL THEN SetToBag({JoinedRun(u)}) ELSE EmptyBag]

\* The Connect page is left: its state is gone, and what its fetches return
\* is dropped.
UnmountConnect(c) ==
  /\ joinedProjectIds' = [joinedProjectIds EXCEPT ![c] = {}]
  /\ joinedStartupIds' = [joinedStartupIds EXCEPT ![c] = {}]
  /\ fjs' = [fjs EXCEPT ![c] = EmptyBag]

\* the select of the community by id as CommunityDetail's effect sends it;
\* live: the view that sent it is still mounted
CommunityRequest(cid, u) ==
  [cid |-> cid, user |-> u, live |-> TRUE, at |-> "sent", status |-> "none"]

\* a fetchPosts() call: the request carries the community id of the closure
\* and the session's user
PostsRequest(cid, u) == [cid |-> cid, user |-> u]

\* the requests and handlers of a view that is gone: their answers still
\* come, and what they do to the view's state is dropped
Lost(pending) == BagOfAll(LAMBDA r : [r EXCEPT !.live = FALSE], pending)

\* The cleanup of CommunityDetail's effect: removeChannel
RemoveChannel(c) ==
  /\ sub' = [sub EXCEPT ![c] = "off"]
  /\ notes' = [notes EXCEPT ![c] = 0]

\* The chat view is left or not mounted: its state is gone, the channel is
\* removed, and what fetchPosts returns is dropped.  pending is what is left
\* of fcom[c].
UnmountChat(c, pending) ==
  /\ RemoveChannel(c)
  /\ community' = [community EXCEPT ![c] = NULL]
  /\ fcom' = [fcom EXCEPT ![c] = Lost(pending)]
  /\ posts' = [posts EXCEPT ![c] = <<>>]
  /\ fp' = [fp EXCEPT ![c] = EmptyBag]
  /\ fr' = [fr EXCEPT ![c] = EmptyBag]

\* room for one more fetchPosts() call of client c
RoomForPosts(c) == BagCardinality(fp[c]) + BagCardinality(fr[c]) < MaxFetches

\* CommunityDetail's effect runs for community cid and user u (set): on
\* mounting, with the view's state empty, or again after id or user has
\* changed, the cleanup of the run before having removed the channel.  It
\* sends the select of the community, calls fetchPosts() and subscribes;
\* community and posts stay as they are.
RunChatEffect(c, cid, u, pending) ==
  /\ Room(Add(pending, CommunityRequest(cid, u)))
  /\ RoomForPosts(c)
  /\ fcom' = [fcom EXCEPT ![c] = Add(pending, CommunityRequest(cid, u))]
  /\ fp' = [fp EXCEPT ![c] = Add(@, PostsRequest(cid, u))]
  /\ sub' = [sub EXCEPT ![c] = "joining"]
  /\ notes' = [notes EXCEPT ![c] = 0]
  /\ UNCHANGED <<community, posts, fr>>

\* navigate(r) on client c, t being the notification shown so far.  The page
\* left is unmounted, the page entered is mounted and its effects run; a
\* page that stays is left as it is.  CommunityDetail's effect sends a
\* client without a user on to /auth with "Access Denied".  pending is what
\* is left of fcom[c], rs the handlers of c that still wait: those of a page
\* that is left go on without it.
ShowFrom(c, r, t, pending, rs) ==
  LET final == IF r.page = "chat" /\ r # route[c] /\ user[c] = NULL
               THEN Page("auth") ELSE r
  IN /\ route' = [route EXCEPT ![c] = final]
     /\ toast' = [toast EXCEPT ![c] = IF final = r THEN t ELSE "access_denied"]
     /\ runs' = [runs EXCEPT ![c] =
                  IF final.page = route[c].page THEN rs ELSE Lost(rs)]
     /\ IF final.page = "community"
        THEN IF route[c].page = "community"
             THEN UNCHANGED lists ELSE MountLists(c, user[c])
        ELSE UnmountLists(c)
     /\ IF final.page = "connect"
        THEN IF route[c].page = "connect"
             THEN UNCHANGED conn ELSE MountConnect(c, user[c])
        ELSE UnmountConnect(c)
     /\ IF final.page = "chat"
        THEN IF route[c] = final
             THEN /\ fcom' = [fcom EXCEPT ![c] = pending]
                  /\ UNCHANGED <<community, posts, fp, fr, sub, notes>>
             ELSE RunChatEffect(c, final.id, user[c], pending)
        ELSE UnmountChat(c, pending)

\* ------------------------------------------------------------------ session, navigation

\* The answer to a request of a page.  With fail the client gets an error
\* and no row changes: the network lost the request, or the statement is
\* one the server refuses whatever its rows (a statement that has to apply
\* the SELECT policy of communities or of community_members is answered
\* 42P17, infinite recursion detected in policy).  Without fail the answer
\* is the one the statement has with the policies evaluated as they are
\* written.
Served(fail, status) == IF fail THEN "transport" ELSE status

\* AuthContext: the session of a registered account starts on a client,
\* whatever the client is doing.  The effect of Community on [user] sends
\* its selects again, Connect's effect on [user] calls fetchJoinedStatus(),
\* CommunityDetail's effect on [id, user, navigate] is cleaned up and runs
\* again.  A handler that is waiting keeps the user of its closure.
Login(c, u) ==
  /\ u \in Ids(profiles)
  /\ user[c] # u
  /\ user' = [user EXCEPT ![c] = u]
  /\ IF route[c].page = "community"
     THEN RefetchLists(c, u) ELSE UNCHANGED lists
  /\ IF route[c].page = "connect"
     THEN /\ RoomForRun(c, u)
          /\ fjs' = StartFetch(c, u)
     ELSE UNCHANGED fjs
  /\ IF route[c].page = "chat"
     THEN RunChatEffect(c, route[c].id, u, fcom[c]) ELSE UNCHANGED chat
  /\ UNCHANGED <<db, community_posts, route, runs, toast,
                 joinedProjectIds, joinedStartupIds, ghost>>

\* AuthContext: the session ends.  Community's effect sends fetchCommunities
\* again; Connect's effect does nothing without a user; CommunityDetail's
\* effect is cleaned up, runs again and sends the client to /auth.
Logout(c) ==
  /\ user[c] # NULL
  /\ user' = [user EXCEPT ![c] = NULL]
  /\ IF route[c].page = "community"
     THEN RefetchLists(c, NULL) ELSE UNCHANGED lists
  /\ IF route[c].page = "chat"
     THEN /\ route' = [route EXCEPT ![c] = Page("auth")]
          /\ toast' = [toast EXCEPT ![c] = "access_denied"]
          /\ runs' = [runs EXCEPT ![c] = Lost(@)]
          /\ UnmountChat(c, fcom[c])
     ELSE UNCHANGED <<route, toast, runs, chat>>
  /\ UNCHANGED <<db, community_posts, conn, ghost>>

\* The user opens the Community or the Connect page (Navbar).  Connect mounts
\* with empty joined sets and, when logged in, calls fetchJoinedStatus().
Goto(c, name) ==
  /\ route[c].page # name
  /\ ShowFrom(c, Page(name), toast[c], fcom[c], runs[c])
  /\ UNCHANGED <<db, community_posts, user, ghost>>

\* The user opens /community/:id from another page (a card of "Your
\* Communities", a link): CommunityDetail is mounted and its effect runs.
OpenChat(c, cid) ==
  /\ route[c].page # "chat"
  /\ ShowFrom(c, Chat(cid), toast[c], fcom[c], runs[c])
  /\ UNCHANGED <<db, community_posts, user, ghost>>

\* The route changes from /community/:id to /community/:cid inside the
\* running application (a history entry is revisited): the same
\* CommunityDetail stays mounted with its state, the cleanup of its effect
\* removes the channel and the effect runs again for the new id.  Requests
\* sent before the change are still answered.
ChangeChat(c, cid) ==
  /\ route[c].page = "chat"
  /\ route[c].id # cid
  /\ ShowFrom(c, Chat(cid), toast[c], fcom[c], runs[c])
  /\ UNCHANGED <<db, community_posts, user, ghost>>

\* requireLogin() of Community and of Connect: its result
RequireLogin(c) == user[c] # NULL

\* requireLogin() of Community and of Connect, when it returns false
RequireLoginFails(c) ==
  /\ ~ RequireLogin(c)
  /\ ShowFrom(c, Page("auth"), "login_required", fcom[c], runs[c])
  /\ UNCHANGED <<db, community_posts, user, ghost>>

\* ------------------------------------------------------------------ handlers
\* A handler that has passed requireLogin is a run: the closure it was
\* called in (user, and the arguments isPublic, code, id as far as they are
\* known), the request it awaits (at), the session the request was sent
\* with (auth), and once the request is served its outcome (status).  live:
\* the Connect page that called it is still mounted.  Any number of runs
\* wait on a client, equal ones included, up to MaxRuns.

Run(h, at, u, isPublic, code, id, live) ==
  [h |-> h, at |-> at, served |-> FALSE, user |-> u, auth |-> u,
   isPublic |-> isPublic, code |-> code, id |-> id, status |-> "none",
   live |-> live]

\* the runs of handler h on client c whose request at is not yet served
Waiting(c, h, at) ==
  {r \in BagToSet(runs[c]) : r.h = h /\ r.at = at /\ ~ r.served}

\* the runs of handler h on client c whose request at is served, the answer
\* not yet handled
Answered(c, h, at) ==
  {r \in BagToSet(runs[c]) : r.h = h /\ r.at = at /\ r.served}

\* the run goes on to its next await: the request at is sent with the
\* session auth
Sent(r, at, auth) ==
  [r EXCEPT !.at = at, !.served = FALSE, !.auth = auth, !.status = "none"]

\* the request a run awaits is served with outcome st
ServedAs(r, st) == [r EXCEPT !.served = TRUE, !.status = st]

\* a handler of client c is called and passes requireLogin: the run waits
\* for its first request, and nothing else changes
Start(c, r) ==
  /\ RequireLogin(c)
  /\ BagCardinality(runs[c]) < MaxRuns
  /\ runs' = [runs EXCEPT ![c] = Add(@, r)]
  /\ UNCHANGED <<db, community_posts, user, route, toast, conn, ghost,
                 lists, chat>>

\* the answer to the request of run r is handled and the next request is
\* sent with the session the client has by now; nothing else changes
GoOn(c, r, at) ==
  /\ runs' = [runs EXCEPT ![c] = Replace(@, r, Sent(r, at, user[c]))]
  /\ UNCHANGED <<db, community_posts, user, route, toast, conn, ghost,
                 lists, chat>>

\* ------------------------------------------------------------------ CommunityDetail

\* The select of the community by id (.single(): no row is an error) is
\* served with the session it was sent with.
ChatLoadServed(c, r, fail) ==
  /\ r \in BagToSet(fcom[c])
  /\ r.at = "sent"
  /\ LET rows == {x \in VisibleCommunities(r.user) : x.id = r.cid}
         st   == Served(fail, IF rows = {} THEN "no_rows" ELSE "ok")
     IN fcom' = [fcom EXCEPT ![c] =
                  Replace(@, r, [r EXCEPT !.at = "reply", !.status = st])]
  /\ UNCHANGED <<db, community_posts, page, conn, ghost, lists, community,
                 posts, fp, fr, sub, notes>>

\* The answer to the select of the community is handled: on an error
\* "Community not found" and navigate("/community"), whatever page the
\* client shows by now; else setCommunity(data), which a view that is gone
\* ignores.
ChatLoad(c, r) ==
  /\ r \in BagToSet(fcom[c])
  /\ r.at = "reply"
  /\ IF r.status # "ok"
     THEN ShowFrom(c, Page("community"), "not_found", Drop(fcom[c], r), runs[c])
     ELSE /\ fcom' = [fcom EXCEPT ![c] = Drop(@, r)]
          /\ community' = IF r.live THEN [community EXCEPT ![c] = r.cid]
                          ELSE community
          /\ UNCHANGED <<route, toast, runs, lists, conn, posts, fp, fr, sub,
                         notes>>
  /\ UNCHANGED <<db, community_posts, user, ghost>>

\* the chat view of client c shows its community and the message form
ChatLoaded(c) == route[c].page = "chat" /\ community[c] # NULL

\* Realtime: an insert is announced on every joined channel whose filter
\* (community_id=eq.id) matches and whose user may read the row.
Announce(row) ==
  [c \in Clients |->
     IF sub[c] = "on" /\ route[c].id = row.community_id
        /\ CommunityPostsSelectUsing(user[c], row)
     THEN notes[c] + 1 ELSE notes[c]]

\* room left in the bounded community_posts table
RoomForPost == Cardinality(community_posts) < MaxPosts

\* sendMessage with a non-empty message: it returns at once without a user,
\* else the insert into community_posts is sent
SendMessage(c) ==
  /\ ChatLoaded(c)
  /\ RoomForPost
  /\ Start(c, Run("send", "insert", user[c], FALSE, NULL, route[c].id, FALSE))

\* sendMessage: the insert into community_posts is served
InsertPostServed(c, r, fail) ==
  /\ r \in Waiting(c, "send", "insert")
  /\ RoomForPost
  /\ LET row == PostRow(r.id, r.user)
         st  == Served(fail, InsertPostStatus(r.auth, row))
     IN /\ community_posts' =
             IF st = "ok" THEN community_posts \cup {row} ELSE community_posts
        /\ notes' = IF st = "ok" THEN Announce(row) ELSE notes
        /\ runs' = [runs EXCEPT ![c] = Replace(@, r, ServedAs(r, st))]
  /\ UNCHANGED <<db, user, route, toast, conn, ghost, lists, community,
                 fcom, posts, fp, fr, sub>>

\* sendMessage: the answer of the insert is handled, on an error "Failed to
\* send message"
SendMessageDone(c, r) ==
  /\ r \in Answered(c, "send", "insert")
  /\ runs' = [runs EXCEPT ![c] = Drop(@, r)]
  /\ toast' = IF r.status = "ok" THEN toast ELSE [toast EXCEPT ![c] = "error"]
  /\ UNCHANGED <<db, community_posts, user, route, conn, ghost, lists, chat>>

\* a direct insert into community_posts
ApiInsertPost(auth, cid, uid) ==
  /\ RoomForPost
  /\ LET row == PostRow(cid, uid)
         st  == InsertPostStatus(auth, row)
     IN /\ community_posts' =
             IF st = "ok" THEN community_posts \cup {row} ELSE community_posts
        /\ notes' = IF st = "ok" THEN Announce(row) ELSE notes
        /\ refused' = IF st = "rls"
                      THEN Refusal("insert_community_posts", auth) ELSE refused
  /\ UNCHANGED <<db, page, conn, lists, community, fcom, posts, fp, fr, sub,
                 returned, viaCreate>>

\* the server has joined the channel of client c
Subscribed(c) ==
  /\ sub[c] = "joining"
  /\ sub' = [sub EXCEPT ![c] = "on"]
  /\ UNCHANGED <<db, community_posts, page, conn, ghost, lists, community,
                 fcom, posts, fp, fr, notes>>

\* the channel's callback runs for one notification: fetchPosts(), one more
\* query beside those under way
OnInsert(c) ==
  /\ notes[c] > 0
  /\ RoomForPosts(c)
  /\ notes' = [notes EXCEPT ![c] = @ - 1]
  /\ fp' = [fp EXCEPT ![c] = Add(@, PostsRequest(route[c].id, user[c]))]
  /\ UNCHANGED <<db, community_posts, page, conn, ghost, lists, community,
                 fcom, posts, fr, sub>>

\* a fetchPosts request is served: the result is the query's rows at this
\* moment, or an error
FetchPostsServed(c, r, fail) ==
  /\ r \in BagToSet(fp[c])
  /\ fp' = [fp EXCEPT ![c] = Drop(@, r)]
  /\ fr' = IF fail THEN fr
           ELSE [fr EXCEPT ![c] = Add(@, SelectPosts(r.user, r.cid))]
  /\ UNCHANGED <<db, community_posts, page, conn, ghost, lists, community,
                 fcom, posts, sub, notes>>

\* faulty variant of the update below: the rows are added to the list
AppendPosts(old, data) == old \o data

\* if (data) setPosts(data)
SetPosts(old, data) == data

\* fetchPosts receives a result
FetchPostsReceived(c, data) ==
  /\ data \in BagToSet(fr[c])
  /\ fr' = [fr EXCEPT ![c] = Drop(@, data)]
  /\ posts' = [posts EXCEPT ![c] = SetPosts(posts[c], data)]
  /\ UNCHANGED <<db, community_posts, page, conn, ghost, lists, community,
                 fcom, fp, sub, notes>>

\* ------------------------------------------------------------------ Community

\* room left in the bounded communities table
RoomForCommunity == Cardinality(communities) < MaxCommunities

\* the answer to a select that is under way takes the place of the request
Answer(r, fail, data) ==
  [r EXCEPT !.at = "reply", !.ok = ~ fail, !.data = IF fail THEN {} ELSE data]

\* fetchCommunities(): the select of the public communities is served
FetchCommunitiesServed(c, r, fail) ==
  /\ r \in BagToSet(fc[c])
  /\ r.kind = "pub" /\ r.at = "sent"
  /\ fc' = [fc EXCEPT ![c] =
             Replace(@, r, Answer(r, fail, {x \in VisibleCommunities(r.user) :
                                              x.is_public = TRUE}))]
  /\ UNCHANGED <<db, community_posts, page, conn, ghost, publicCommunities,
                 userCommunities, chat>>

\* if (data) setPublicCommunities(data): on an error the list is kept
FetchCommunitiesReceived(c, r) ==
  /\ r \in BagToSet(fc[c])
  /\ r.kind = "pub" /\ r.at = "reply"
  /\ fc' = [fc EXCEPT ![c] = Drop(@, r)]
  /\ publicCommunities' =
       IF r.ok THEN [publicCommunities EXCEPT ![c] = r.data]
       ELSE publicCommunities
  /\ UNCHANGED <<db, community_posts, page, conn, ghost, userCommunities, chat>>

\* fetchUserCommunities(): the select of the user's membership rows with the
\* community embedded in each is served.  A community the user may not read
\* is embedded as null, and .filter(Boolean) drops it.  The answer without
\* an error is the one the policies give as they are written; the server's
\* refusal of the policy of community_members is the answer with an error.
FetchUserCommunitiesServed(c, r, fail) ==
  /\ r \in BagToSet(fc[c])
  /\ r.kind = "mine" /\ r.at = "sent"
  /\ LET u    == r.user
         rows == {m \in community_members :
                    CommunityMembersSelectUsing(u, m) /\ m.user_id = u}
     IN fc' = [fc EXCEPT ![c] =
                Replace(@, r, Answer(r, fail,
                                     {x \in VisibleCommunities(u) :
                                        \E m \in rows : m.community_id = x.id}))]
  /\ UNCHANGED <<db, community_posts, page, conn, ghost, publicCommunities,
                 userCommunities, chat>>

\* if (data) setUserCommunities(data.map(...).filter(Boolean))
FetchUserCommunitiesReceived(c, r) ==
  /\ r \in BagToSet(fc[c])
  /\ r.kind = "mine" /\ r.at = "reply"
  /\ fc' = [fc EXCEPT ![c] = Drop(@, r)]
  /\ userCommunities' =
       IF r.ok THEN [userCommunities EXCEPT ![c] = r.data]
       ELSE userCommunities
  /\ UNCHANGED <<db, community_posts, page, conn, ghost, publicCommunities, chat>>

\* handleCreate, the form submitted: requireLogin, then the
\* generate_invite_code call is sent.  Nothing keeps the form from being
\* submitted again while the handler waits.
HandleCreate(c, isPublic) ==
  /\ route[c].page = "community"
  /\ \/ RequireLoginFails(c)
     \/ /\ RoomForCommunity
        /\ Len(returned) < MaxCalls
        /\ Start(c, Run("create", "rpc", user[c], isPublic, NULL, NULL, FALSE))

\* handleCreate: the generate_invite_code call is served (error: data is
\* undefined).  The function runs with the caller's rights and reads
\* communities, so the server refuses the call (fail).  As written its loop
\* can exit with any code that no community the caller may read holds.
GenerateInviteCodeServed(c, r, fail) ==
  /\ r \in Waiting(c, "create", "rpc")
  /\ Len(returned) < MaxCalls
  /\ \E k \in (IF fail THEN {NULL}
              ELSE {k \in Codes : ~ \E x \in VisibleCommunities(r.auth) :
                                       SqlEq(x.invite_code, k)}) :
       /\ runs' = [runs EXCEPT ![c] =
                    Replace(@, r, [ServedAs(r, Served(fail, "ok"))
                                     EXCEPT !.code = k])]
       /\ returned' = IF fail THEN returned ELSE Append(returned, k)
  /\ UNCHANGED <<db, community_posts, user, route, toast, conn, refused,
                 viaCreate, lists, chat>>

\* handleCreate: the code is received, and the insert into communities with
\* .select().single() is sent
HandleCreateInsert(c, r) ==
  /\ r \in Answered(c, "create", "rpc")
  /\ GoOn(c, r, "insert")

\* handleCreate: the insert into communities is served.  The request asks
\* for the new row (.select()), which applies the SELECT policy to it as
\* well, so the server refuses the statement (fail) and stores no row.  As
\* written the policy hides a private row from its creator.
InsertCommunityServed(c, r, fail) ==
  /\ r \in Waiting(c, "create", "insert")
  /\ RoomForCommunity
  /\ LET row == CommunityRow(NewEntityId(communities), r.isPublic, r.code,
                             r.user)
         st  == Served(fail,
                       IF CommunitiesInsertCheck(r.auth, row)
                            /\ ~ CommunitiesSelectUsing(r.auth, row)
                       THEN "rls"
                       ELSE InsertCommunityStatus(r.auth, row))
     IN /\ communities' = IF st = "ok" THEN communities \cup {row} ELSE communities
        /\ viaCreate' = IF st = "ok" THEN viaCreate \cup {row.id} ELSE viaCreate
        /\ runs' = [runs EXCEPT ![c] =
                     Replace(@, r, [ServedAs(r, st) EXCEPT
                                      !.id = IF st = "ok" THEN row.id ELSE NULL])]
  /\ UNCHANGED <<profiles, community_members, projects, project_members,
                 startups, startup_members, community_posts, user, route, toast,
                 conn, refused, returned, lists, chat>>

\* handleCreate: the answer of the insert is handled: on an error the error
\* notification, else the creator's membership insert is sent
HandleCreateJoin(c, r) ==
  /\ r \in Answered(c, "create", "insert")
  /\ IF r.status = "ok"
     THEN GoOn(c, r, "join")
     ELSE /\ runs' = [runs EXCEPT ![c] = Drop(@, r)]
          /\ toast' = [toast EXCEPT ![c] = "error"]
          /\ UNCHANGED <<db, community_posts, user, route, conn, ghost, lists,
                         chat>>

\* the membership insert of handleCreate, handleJoinByCode or
\* handleJoinPublic is served
InsertCommunityMemberServed(c, r, fail) ==
  /\ r \in Waiting(c, "create", "join") \cup Waiting(c, "joinByCode", "join")
             \cup Waiting(c, "joinPublic", "join")
  /\ LET row == CommunityMemberRow(r.id, r.user)
         st  == Served(fail, InsertCommunityMemberStatus(r.auth, row))
     IN /\ community_members' =
             IF st = "ok" THEN community_members \cup {row} ELSE community_members
        /\ runs' = [runs EXCEPT ![c] = Replace(@, r, ServedAs(r, st))]
  /\ UNCHANGED <<profiles, communities, projects, project_members, startups,
                 startup_members, community_posts, user, route, toast,
                 conn, ghost, lists, chat>>

\* handleCreate: the answer of the membership insert has come (its result is
\* not read): the success toast and the redirect to the chat
HandleCreateDone(c, r) ==
  /\ r \in Answered(c, "create", "join")
  /\ ShowFrom(c, Chat(r.id), "success", fcom[c], Drop(runs[c], r))
  /\ UNCHANGED <<db, community_posts, user, ghost>>

\* handleJoinByCode: requireLogin, then the select of the community that
\* holds the code is sent
HandleJoinByCode(c, inviteCode) ==
  /\ route[c].page = "community"
  /\ \/ RequireLoginFails(c)
     \/ Start(c, Run("joinByCode", "lookup", user[c], FALSE, inviteCode, NULL,
                     FALSE))

\* handleJoinByCode: the select of the community that holds the code is
\* served (.single(): data is null without a row)
SelectByCodeServed(c, r, fail) ==
  /\ r \in Waiting(c, "joinByCode", "lookup")
  /\ LET rows == {x \in VisibleCommunities(r.auth) :
                    SqlEq(x.invite_code, r.code)}
         st   == Served(fail, IF rows = {} THEN "no_rows" ELSE "ok")
     IN \E i \in (IF st = "ok" THEN Ids(rows) ELSE {NULL}) :
          runs' = [runs EXCEPT ![c] =
                    Replace(@, r, [ServedAs(r, st) EXCEPT !.id = i])]
  /\ UNCHANGED <<db, community_posts, user, route, toast, conn, ghost,
                 lists, chat>>

\* handleJoinByCode: the answer of the select is handled: without a
\* community "Invalid Code", else the membership insert is sent
HandleJoinByCodeInsert(c, r) ==
  /\ r \in Answered(c, "joinByCode", "lookup")
  /\ IF r.status = "ok"
     THEN GoOn(c, r, "join")
     ELSE /\ runs' = [runs EXCEPT ![c] = Drop(@, r)]
          /\ toast' = [toast EXCEPT ![c] = "invalid_code"]
          /\ UNCHANGED <<db, community_posts, user, route, conn, ghost, lists,
                         chat>>

\* handleJoinByCode: the answer of the membership insert has come (its error
\* is not read): the redirect to the chat
HandleJoinByCodeDone(c, r) ==
  /\ r \in Answered(c, "joinByCode", "join")
  /\ ShowFrom(c, Chat(r.id), toast[c], fcom[c], Drop(runs[c], r))
  /\ UNCHANGED <<db, community_posts, user, ghost>>

\* handleJoinPublic(communityId) for a card of the Explore tab:
\* requireLogin, then the membership insert is sent
HandleJoinPublic(c, communityId) ==
  /\ route[c].page = "community"
  /\ \E x \in communities : x.id = communityId /\ x.is_public = TRUE
  /\ \/ RequireLoginFails(c)
     \/ Start(c, Run("joinPublic", "join", user[c], FALSE, NULL, communityId,
                     FALSE))

\* handleJoinPublic: the answer of the membership insert has come (its
\* result is not read): the redirect to the chat
HandleJoinPublicDone(c, r) ==
  /\ r \in Answered(c, "joinPublic", "join")
  /\ ShowFrom(c, Chat(r.id), toast[c], fcom[c], Drop(runs[c], r))
  /\ UNCHANGED <<db, community_posts, user, ghost>>

\* ------------------------------------------------------------------ Connect

\* fetchJoinedStatus: the select on project_members is served ("Project
\* members are viewable by everyone") from the table as it is at this moment
FetchJoinedProjectsServed(c, r, fail) ==
  /\ r \in BagToSet(fjs[c])
  /\ r.at = "projects"
  /\ fjs' = [fjs EXCEPT ![c] =
              Replace(@, r,
                      [r EXCEPT !.at = "projects_reply", !.ok = ~ fail,
                                !.data = IF fail THEN {}
                                         ELSE {m.project_id :
                                                 m \in {q \in project_members :
                                                          q.user_id = r.user}}])]
  /\ UNCHANGED <<db, page, joinedProjectIds, joinedStartupIds, ghost,
                 community_posts, lists, chat>>

\* if (pData) setJoinedProjectIds(new Set(...)), then the second select is
\* sent
FetchJoinedProjectsReceived(c, r) ==
  /\ r \in BagToSet(fjs[c])
  /\ r.at = "projects_reply"
  /\ joinedProjectIds' =
       IF r.ok THEN [joinedProjectIds EXCEPT ![c] = r.data]
       ELSE joinedProjectIds
  /\ fjs' = [fjs EXCEPT ![c] =
              Replace(@, r, [r EXCEPT !.at = "startups", !.ok = TRUE,
                                      !.data = {}])]
  /\ UNCHANGED <<db, page, joinedStartupIds, ghost, community_posts, lists, chat>>

\* fetchJoinedStatus: the select on startup_members is served
FetchJoinedStartupsServed(c, r, fail) ==
  /\ r \in BagToSet(fjs[c])
  /\ r.at = "startups"
  /\ fjs' = [fjs EXCEPT ![c] =
              Replace(@, r,
                      [r EXCEPT !.at = "startups_reply", !.ok = ~ fail,
                                !.data = IF fail THEN {}
                                         ELSE {m.startup_id :
                                                 m \in {q \in startup_members :
                                                          q.user_id = r.user}}])]
  /\ UNCHANGED <<db, page, joinedProjectIds, joinedStartupIds, ghost,
                 community_posts, lists, chat>>

\* if (sData) setJoinedStartupIds(new Set(...))
FetchJoinedStartupsReceived(c, r) ==
  /\ r \in BagToSet(fjs[c])
  /\ r.at = "startups_reply"
  /\ joinedStartupIds' =
       IF r.ok THEN [joinedStartupIds EXCEPT ![c] = r.data]
       ELSE joinedStartupIds
  /\ fjs' = [fjs EXCEPT ![c] = Drop(@, r)]
  /\ UNCHANGED <<db, page, joinedProjectIds, ghost, community_posts, lists, chat>>

\* room left in the bounded projects and startups tables
RoomForProject == Cardinality(projects) < MaxProjects
RoomForStartup == Cardinality(startups) < MaxStartups

\* handleCreateProject, the form submitted: requireLogin, then the insert
\* into projects with .select().single() is sent
HandleCreateProject(c) ==
  /\ route[c].page = "connect"
  /\ \/ RequireLoginFails(c)
     \/ /\ RoomForProject
        /\ Start(c, Run("createProject", "insert", user[c], FALSE, NULL, NULL,
                        TRUE))

\* handleCreateProject: the insert into projects is served ("Projects are
\* viewable by everyone")
InsertProjectServed(c, r, fail) ==
  /\ r \in Waiting(c, "createProject", "insert")
  /\ RoomForProject
  /\ LET row == [id |-> NewEntityId(projects), host_id |-> r.user,
                 status |-> "open"]
         st  == Served(fail, InsertProjectStatus(r.auth, row))
     IN /\ projects' = IF st = "ok" THEN projects \cup {row} ELSE projects
        /\ runs' = [runs EXCEPT ![c] =
                     Replace(@, r, [ServedAs(r, st) EXCEPT
                                      !.id = IF st = "ok" THEN row.id ELSE NULL])]
  /\ UNCHANGED <<profiles, communities, community_members, project_members,
                 startups, startup_members, community_posts, user, route, toast,
                 conn, ghost, lists, chat>>

\* handleCreateProject: the answer of the insert is handled: on an error the
\* error notification, else the host's membership insert is sent
HandleCreateProjectJoin(c, r) ==
  /\ r \in Answered(c, "createProject", "insert")
  /\ IF r.status = "ok"
     THEN GoOn(c, r, "join")
     ELSE /\ runs' = [runs EXCEPT ![c] = Drop(@, r)]
          /\ toast' = [toast EXCEPT ![c] = "error"]
          /\ UNCHANGED <<db, community_posts, user, route, conn, ghost, lists,
                         chat>>

\* the membership insert of handleCreateProject ('host') or of
\* handleJoinProject ('participant') is served
InsertProjectMemberServed(c, r, fail) ==
  /\ r \in Waiting(c, "createProject", "join") \cup Waiting(c, "joinProject", "join")
  /\ LET row == ProjectMemberRow(r.id, r.user,
                                 IF r.h = "createProject" THEN "host"
                                 ELSE "participant")
         st  == Served(fail, InsertProjectMemberStatus(r.auth, row))
     IN /\ project_members' =
             IF st = "ok" THEN project_members \cup {row} ELSE project_members
        /\ runs' = [runs EXCEPT ![c] = Replace(@, r, ServedAs(r, st))]
  /\ UNCHANGED <<profiles, communities, community_members, projects, startups,
                 startup_members, community_posts, user, route, toast,
                 conn, ghost, lists, chat>>

\* handleCreateProject: the answer of the membership insert has come (its
\* result is not read): the success toast, fetchProjects() and
\* fetchJoinedStatus(), which acts for the user of the closure on the page
\* that ran the handler
HandleCreateProjectDone(c, r) ==
  /\ r \in Answered(c, "createProject", "join")
  /\ runs' = [runs EXCEPT ![c] = Drop(@, r)]
  /\ toast' = [toast EXCEPT ![c] = "success"]
  /\ IF r.live
     THEN /\ RoomForRun(c, r.user)
          /\ fjs' = StartFetch(c, r.user)
     ELSE UNCHANGED fjs
  /\ UNCHANGED <<db, community_posts, user, route, joinedProjectIds,
                 joinedStartupIds, ghost, lists, chat>>

HandleCreateStartup(c) ==
  /\ route[c].page = "connect"
  /\ \/ RequireLoginFails(c)
     \/ /\ RoomForStartup
        /\ Start(c, Run("createStartup", "insert", user[c], FALSE, NULL, NULL,
                        TRUE))

InsertStartupServed(c, r, fail) ==
  /\ r \in Waiting(c, "createStartup", "insert")
  /\ RoomForStartup
  /\ LET row == [id |-> NewEntityId(startups), founder_id |-> r.user,
                 status |-> "active"]
         st  == Served(fail, InsertStartupStatus(r.auth, row))
     IN /\ startups' = IF st = "ok" THEN startups \cup {row} ELSE startups
        /\ runs' = [runs EXCEPT ![c] =
                     Replace(@, r, [ServedAs(r, st) EXCEPT
                                      !.id = IF st = "ok" THEN row.id ELSE NULL])]
  /\ UNCHANGED <<profiles, communities, community_members, projects,
                 project_members, startup_members, community_posts, user, route,
                 toast, conn, ghost, lists, chat>>

HandleCreateStartupJoin(c, r) ==
  /\ r \in Answered(c, "createStartup", "insert")
  /\ IF r.status = "ok"
     THEN GoOn(c, r, "join")
     ELSE /\ runs' = [runs EXCEPT ![c] = Drop(@, r)]
          /\ toast' = [toast EXCEPT ![c] = "error"]
          /\ UNCHANGED <<db, community_posts, user, route, conn, ghost, lists,
                         chat>>

\* the membership insert of handleCreateStartup ('founder') or of
\* handleJoinStartup ('member') is served
InsertStartupMemberServed(c, r, fail) ==
  /\ r \in Waiting(c, "createStartup", "join") \cup Waiting(c, "joinStartup", "join")
  /\ LET row == StartupMemberRow(r.id, r.user,
                                 IF r.h = "createStartup" THEN "founder"
                                 ELSE "member")
         st  == Served(fail, InsertStartupMemberStatus(r.auth, row))
     IN /\ startup_members' =
             IF st = "ok" THEN startup_members \cup {row} ELSE startup_members
        /\ runs' = [runs EXCEPT ![c] = Replace(@, r, ServedAs(r, st))]
  /\ UNCHANGED <<profiles, communities, community_members, projects,
                 project_members, startups, community_posts, user, route, toast,
                 conn, ghost, lists, chat>>

HandleCreateStartupDone(c, r) ==
  /\ r \in Answered(c, "createStartup", "join")
  /\ runs' = [runs EXCEPT ![c] = Drop(@, r)]
  /\ toast' = [toast EXCEPT ![c] = "success"]
  /\ IF r.live
     THEN /\ RoomForRun(c, r.user)
          /\ fjs' = StartFetch(c, r.user)
     ELSE UNCHANGED fjs
  /\ UNCHANGED <<db, community_posts, user, route, joinedProjectIds,
                 joinedStartupIds, ghost, lists, chat>>

\* handleJoinProject(projectId) for a card whose button is enabled
\* (!isJoined): requireLogin, then the membership insert is sent
HandleJoinProject(c, projectId) ==
  /\ route[c].page = "connect"
  /\ projectId \in Ids(projects)
  /\ projectId \notin joinedProjectIds[c]
  /\ \/ RequireLoginFails(c)
     \/ Start(c, Run("joinProject", "join", user[c], FALSE, NULL, projectId,
                     TRUE))

\* handleJoinProject: the answer of the membership insert is handled: the
\* toast, and on success the id added to joinedProjectIds of the page that
\* ran the handler
HandleJoinProjectDone(c, r) ==
  /\ r \in Answered(c, "joinProject", "join")
  /\ runs' = [runs EXCEPT ![c] = Drop(@, r)]
  /\ toast' = [toast EXCEPT ![c] = IF r.status = "ok" THEN "joined" ELSE "error"]
  /\ joinedProjectIds' =
       IF r.status = "ok" /\ r.live
       THEN [joinedProjectIds EXCEPT ![c] = @ \cup {r.id}]
       ELSE joinedProjectIds
  /\ UNCHANGED <<db, community_posts, user, route, joinedStartupIds, fjs, ghost,
                 lists, chat>>

HandleJoinStartup(c, startupId) ==
  /\ route[c].page = "connect"
  /\ startupId \in Ids(startups)
  /\ startupId \notin joinedStartupIds[c]
  /\ \/ RequireLoginFails(c)
     \/ Start(c, Run("joinStartup", "join", user[c], FALSE, NULL, startupId,
                     TRUE))

HandleJoinStartupDone(c, r) ==
  /\ r \in Answered(c, "joinStartup", "join")
  /\ runs' = [runs EXCEPT ![c] = Drop(@, r)]
  /\ toast' = [toast EXCEPT ![c] = IF r.status = "ok" THEN "joined" ELSE "error"]
  /\ joinedStartupIds' =
       IF r.status = "ok" /\ r.live
       THEN [joinedStartupIds EXCEPT ![c] = @ \cup {r.id}]
       ELSE joinedStartupIds
  /\ UNCHANGED <<db, community_posts, user, route, joinedProjectIds, fjs, ghost,
                 lists, chat>>

\* ------------------------------------------------------------------ specifications

\* the handlers of client c1 that wait
Runs1 == BagToSet(runs["c1"])

\* One client on the Community page and in the chat view.  Accounts register
\* with a branch no default community matches; one of them may also store a
\* community that holds an invite code, and each may join a community by
\* its id, with requests of their own.
NextCommunity ==
  \/ \E u \in Users : SignUp(u, NullText)
  \/ \E u \in Users : Login("c1", u)
  \/ Logout("c1")
  \/ Goto("c1", "community")
  \/ \E cid \in Acted(FALSE) : OpenChat("c1", cid)
  \/ \E r \in BagToSet(fcom["c1"]), f \in BOOLEAN : ChatLoadServed("c1", r, f)
  \/ \E r \in BagToSet(fcom["c1"]) : ChatLoad("c1", r)
  \/ \E p \in BOOLEAN : ApiInsertCommunity(1, p, 71, 1)
  \/ \E a \in Ids(profiles), cid \in Acted(FALSE) :
       ApiInsertCommunityMember(a, cid, a)

SpecCommunity == Init /\ [][NextCommunity]_vars

\* One client on the Community page, its session changing, while the
\* answers to its selects take their time; an account stores a private
\* community and joins communities.
NextLists ==
  \/ \E u \in Users : SignUp(u, NullText)
  \/ \E u \in Users : Login("c1", u)
  \/ Logout("c1")
  \/ \E n \in {"community", "connect"} : Goto("c1", n)
  \/ \E r \in BagToSet(fc["c1"]), f \in BOOLEAN :
       FetchCommunitiesServed("c1", r, f)
  \/ \E r \in BagToSet(fc["c1"]) : FetchCommunitiesReceived("c1", r)
  \/ \E r \in BagToSet(fc["c1"]), f \in BOOLEAN :
       FetchUserCommunitiesServed("c1", r, f)
  \/ \E r \in BagToSet(fc["c1"]) : FetchUserCommunitiesReceived("c1", r)
  \/ ApiInsertCommunity(1, FALSE, NULL, 1)
  \/ \E cid \in Acted(FALSE) : ApiInsertCommunityMember(1, cid, 1)

SpecLists == Init /\ [][NextLists]_vars

\* One client in the chat view of the default community of Law, kept by a
\* member who logs in and out, opens and leaves the view and sends messages;
\* the member's posts are also stored with requests of their own.  The
\* select of the community is answered with the row or refused.
NextChat ==
  \/ SignUp(1, Law)
  \/ Login("c1", 1)
  \/ Logout("c1")
  \/ Goto("c1", "community")
  \/ OpenChat("c1", DefaultOf(Law))
  \/ \E r \in BagToSet(fcom["c1"]), f \in BOOLEAN : ChatLoadServed("c1", r, f)
  \/ \E r \in BagToSet(fcom["c1"]) : ChatLoad("c1", r)
  \/ SendMessage("c1")
  \/ \E r \in Runs1, f \in BOOLEAN : InsertPostServed("c1", r, f)
  \/ \E r \in Runs1 : SendMessageDone("c1", r)
  \/ ApiInsertPost(1, DefaultOf(Law), 1)
  \/ Subscribed("c1")
  \/ OnInsert("c1")
  \/ \E r \in BagToSet(fp["c1"]), f \in BOOLEAN : FetchPostsServed("c1", r, f)
  \/ \E d \in BagToSet(fr["c1"]) : FetchPostsReceived("c1", d)

SpecChat == Init /\ [][NextChat]_vars

\* One client in the chat view of the default community of Law; one account
\* registers as a member of it, the other does not.  Both send messages
\* from the view, and posts are also sent with requests of their own, by any
\* caller for any account.  The select of the community is answered with
\* the row or refused.
NextMessages ==
  \/ SignUp(1, Law)
  \/ SignUp(2, NullText)
  \/ \E u \in Users : Login("c1", u)
  \/ Logout("c1")
  \/ Goto("c1", "community")
  \/ OpenChat("c1", DefaultOf(Law))
  \/ \E r \in BagToSet(fcom["c1"]), f \in BOOLEAN : ChatLoadServed("c1", r, f)
  \/ \E r \in BagToSet(fcom["c1"]) : ChatLoad("c1", r)
  \/ SendMessage("c1")
  \/ \E r \in Runs1, f \in BOOLEAN : InsertPostServed("c1", r, f)
  \/ \E r \in Runs1 : SendMessageDone("c1", r)
  \/ \E a \in Callers, u \in Ids(profiles) : ApiInsertPost(a, DefaultOf(Law), u)

SpecMessages == Init /\ [][NextMessages]_vars

\* The chat view of the default community of Law kept open by a member
\* while members post.  The select of the community is answered with the
\* row or refused; the requests on community_posts do not fail.  Every
\* request is answered, the channel is joined and every notification is
\* handled.
NextChatLive ==
  \/ \E u \in Users : SignUp(u, Law)
  \/ Login("c1", 1)
  \/ OpenChat("c1", DefaultOf(Law))
  \/ \E r \in BagToSet(fcom["c1"]), f \in BOOLEAN : ChatLoadServed("c1", r, f)
  \/ \E r \in BagToSet(fcom["c1"]) : ChatLoad("c1", r)
  \/ SendMessage("c1")
  \/ \E r \in Runs1 : InsertPostServed("c1", r, FALSE)
  \/ \E r \in Runs1 : SendMessageDone("c1", r)
  \/ \E a \in Ids(profiles) : ApiInsertPost(a, DefaultOf(Law), a)
  \/ Subscribed("c1")
  \/ OnInsert("c1")
  \/ \E r \in BagToSet(fp["c1"]) : FetchPostsServed("c1", r, FALSE)
  \/ \E d \in BagToSet(fr["c1"]) : FetchPostsReceived("c1", d)

SpecChatLive ==
  /\ Init
  /\ [][NextChatLive]_vars
  /\ WF_vars(\E r \in BagToSet(fcom["c1"]), f \in BOOLEAN :
               ChatLoadServed("c1", r, f))
  /\ WF_vars(\E r \in BagToSet(fcom["c1"]) : ChatLoad("c1", r))
  /\ WF_vars(Subscribed("c1"))
  /\ WF_vars(OnInsert("c1"))
  /\ WF_vars(\E r \in BagToSet(fp["c1"]) : FetchPostsServed("c1", r, FALSE))
  /\ WF_vars(\E d \in BagToSet(fr["c1"]) : FetchPostsReceived("c1", d))

\* One client moving between the chat views of the default communities of
\* Law and Civil; its account joins the communities and posts in them.  The
\* select of the community is answered with the row or refused; the
\* requests on community_posts do not fail.
NextChatRoutes ==
  \/ SignUp(1, Law)
  \/ \E cid \in Acted(TRUE) : ApiInsertCommunityMember(1, cid, 1)
  \/ Login("c1", 1)
  \/ Goto("c1", "community")
  \/ \E cid \in Acted(TRUE) : OpenChat("c1", cid)
  \/ \E cid \in Acted(TRUE) : ChangeChat("c1", cid)
  \/ \E r \in BagToSet(fcom["c1"]), f \in BOOLEAN : ChatLoadServed("c1", r, f)
  \/ \E r \in BagToSet(fcom["c1"]) : ChatLoad("c1", r)
  \/ \E cid \in Acted(TRUE) : ApiInsertPost(1, cid, 1)
  \/ Subscribed("c1")
  \/ OnInsert("c1")
  \/ \E r \in BagToSet(fp["c1"]) : FetchPostsServed("c1", r, FALSE)
  \/ \E d \in BagToSet(fr["c1"]) : FetchPostsReceived("c1", d)

SpecChatRoutes == Init /\ [][NextChatRoutes]_vars

\* One client on the Connect page, its session changing; an account stores
\* a project and a startup, the accounts join them with requests of their
\* own, and the answers of fetchJoinedStatus take their time.
NextConnect ==
  \/ \E u \in Users : SignUp(u, NullText)
  \/ \E u \in Users : Login("c1", u)
  \/ Logout("c1")
  \/ \E n \in {"community", "connect"} : Goto("c1", n)
  \/ ApiInsertProject(1, 1)
  \/ ApiInsertStartup(1, 1)
  \/ \E a \in Ids(profiles), pid \in Ids(projects) :
       ApiInsertProjectMember(a, pid, a, "participant")
  \/ \E a \in Ids(profiles), sid \in Ids(startups) :
       ApiInsertStartupMember(a, sid, a, "member")
  \/ \E r \in BagToSet(fjs["c1"]), f \in BOOLEAN :
       FetchJoinedProjectsServed("c1", r, f)
  \/ \E r \in BagToSet(fjs["c1"]) : FetchJoinedProjectsReceived("c1", r)
  \/ \E r \in BagToSet(fjs["c1"]), f \in BOOLEAN :
       FetchJoinedStartupsServed("c1", r, f)
  \/ \E r \in BagToSet(fjs["c1"]) : FetchJoinedStartupsReceived("c1", r)

SpecConnect == Init /\ [][NextConnect]_vars

\* One client on the Connect page whose account stays logged in, joins the
\* project and the startup it has stored and creates startups, while the
\* answers of fetchJoinedStatus take their time.
NextJoined ==
  \/ SignUp(1, NullText)
  \/ Login("c1", 1)
  \/ \E n \in {"community", "connect"} : Goto("c1", n)
  \/ ApiInsertProject(1, 1)
  \/ ApiInsertStartup(1, 1)
  \/ \E r \in BagToSet(fjs["c1"]), f \in BOOLEAN :
       FetchJoinedProjectsServed("c1", r, f)
  \/ \E r \in BagToSet(fjs["c1"]) : FetchJoinedProjectsReceived("c1", r)
  \/ \E r \in BagToSet(fjs["c1"]), f \in BOOLEAN :
       FetchJoinedStartupsServed("c1", r, f)
  \/ \E r \in BagToSet(fjs["c1"]) : FetchJoinedStartupsReceived("c1", r)
  \/ \E pid \in Ids(projects) : HandleJoinProject("c1", pid)
  \/ \E r \in Runs1, f \in BOOLEAN : InsertProjectMemberServed("c1", r, f)
  \/ \E r \in Runs1 : HandleJoinProjectDone("c1", r)
  \/ \E sid \in Ids(startups) : HandleJoinStartup("c1", sid)
  \/ \E r \in Runs1, f \in BOOLEAN : InsertStartupMemberServed("c1", r, f)
  \/ \E r \in Runs1 : HandleJoinStartupDone("c1", r)
  \/ HandleCreateStartup("c1")
  \/ \E r \in Runs1, f \in BOOLEAN : InsertStartupServed("c1", r, f)
  \/ \E r \in Runs1 : HandleCreateStartupJoin("c1", r)
  \/ \E r \in Runs1 : HandleCreateStartupDone("c1", r)

SpecJoined == Init /\ [][NextJoined]_vars

\* One client whose account stays logged in, creating communities on the
\* Community page; the form may be submitted again while handleCreate waits.
NextInvite ==
  \/ SignUp(1, NullText)
  \/ Login("c1", 1)
  \/ Goto("c1", "community")
  \/ \E r \in BagToSet(fcom["c1"]), f \in BOOLEAN : ChatLoadServed("c1", r, f)
  \/ \E r \in BagToSet(fcom["c1"]) : ChatLoad("c1", r)
  \/ \E p \in BOOLEAN : HandleCreate("c1", p)
  \/ \E r \in Runs1, f \in BOOLEAN : GenerateInviteCodeServed("c1", r, f)
  \/ \E r \in Runs1 : HandleCreateInsert("c1", r)
  \/ \E r \in Runs1, f \in BOOLEAN : InsertCommunityServed("c1", r, f)
  \/ \E r \in Runs1 : HandleCreateJoin("c1", r)
  \/ \E r \in Runs1, f \in BOOLEAN : InsertCommunityMemberServed("c1", r, f)
  \/ \E r \in Runs1 : HandleCreateDone("c1", r)

SpecInvite == Init /\ [][NextInvite]_vars

\* One client whose account stays logged in, creating communities on the
\* Community page and creating and joining projects on the Connect page.
\* A form or a button may be used again while a handler waits, and every
\* request may fail.
NextPages ==
  \/ SignUp(1, Law)
  \/ Login("c1", 1)
  \/ Goto("c1", "connect")
  \/ \E p \in BOOLEAN : HandleCreate("c1", p)
  \/ \E r \in Runs1, f \in BOOLEAN : GenerateInviteCodeServed("c1", r, f)
  \/ \E r \in Runs1 : HandleCreateInsert("c1", r)
  \/ \E r \in Runs1, f \in BOOLEAN : InsertCommunityServed("c1", r, f)
  \/ \E r \in Runs1 : HandleCreateJoin("c1", r)
  \/ \E r \in Runs1, f \in BOOLEAN : InsertCommunityMemberServed("c1", r, f)
  \/ \E r \in Runs1 : HandleCreateDone("c1", r)
  \/ \E r \in BagToSet(fjs["c1"]), f \in BOOLEAN :
       FetchJoinedProjectsServed("c1", r, f)
  \/ \E r \in BagToSet(fjs["c1"]) : FetchJoinedProjectsReceived("c1", r)
  \/ HandleCreateProject("c1")
  \/ \E r \in Runs1, f \in BOOLEAN : InsertProjectServed("c1", r, f)
  \/ \E r \in Runs1 : HandleCreateProjectJoin("c1", r)
  \/ \E r \in Runs1, f \in BOOLEAN : InsertProjectMemberServed("c1", r, f)
  \/ \E r \in Runs1 : HandleCreateProjectDone("c1", r)
  \/ \E pid \in Ids(projects) : HandleJoinProject("c1", pid)
  \/ \E r \in Runs1 : HandleJoinProjectDone("c1", r)

SpecPages == Init /\ [][NextPages]_vars

\* One client joining communities, a project and a startup; a join may be
\* started while another waits.  The selects on communities are answered
\* or refused; the membership inserts do not fail but for their policies
\* and constraints.  The account also stores a community with an invite
\* code, a project and a startup with requests of its own.
NextJoins ==
  \/ SignUp(1, Law)
  \/ Login("c1", 1)
  \/ \E n \in {"community", "connect"} : Goto("c1", n)
  \/ \E p \in BOOLEAN : ApiInsertCommunity(1, p, 71, 1)
  \/ ApiInsertProject(1, 1)
  \/ ApiInsertStartup(1, 1)
  \/ \E r \in BagToSet(fcom["c1"]), f \in BOOLEAN : ChatLoadServed("c1", r, f)
  \/ \E r \in BagToSet(fcom["c1"]) : ChatLoad("c1", r)
  \/ HandleJoinByCode("c1", 71)
  \/ \E r \in Runs1, f \in BOOLEAN : SelectByCodeServed("c1", r, f)
  \/ \E r \in Runs1 : HandleJoinByCodeInsert("c1", r)
  \/ \E r \in Runs1 : InsertCommunityMemberServed("c1", r, FALSE)
  \/ \E r \in Runs1 : HandleJoinByCodeDone("c1", r)
  \/ \E cid \in Acted(FALSE) : HandleJoinPublic("c1", cid)
  \/ \E r \in Runs1 : HandleJoinPublicDone("c1", r)
  \/ \E pid \in Ids(projects) : HandleJoinProject("c1", pid)
  \/ \E r \in Runs1 : InsertProjectMemberServed("c1", r, FALSE)
  \/ \E r \in Runs1 : HandleJoinProjectDone("c1", r)
  \/ \E sid \in Ids(startups) : HandleJoinStartup("c1", sid)
  \/ \E r \in Runs1 : InsertStartupMemberServed("c1", r, FALSE)
  \/ \E r \in Runs1 : HandleJoinStartupDone("c1", r)

SpecJoins == Init /\ [][NextJoins]_vars

\* One client whose session starts and ends while its handlers wait: the
\* creation of a community and of a project and the chat view's message
\* form.  The requests that read communities (the select of the chat
\* view, generate_invite_code, the insert that returns its row) are answered
\* or refused; the other requests do not fail.
NextHandlers ==
  \/ SignUp(1, NullText)
  \/ Login("c1", 1)
  \/ Logout("c1")
  \/ \E n \in {"community", "connect"} : Goto("c1", n)
  \/ \E r \in BagToSet(fcom["c1"]), f \in BOOLEAN : ChatLoadServed("c1", r, f)
  \/ \E r \in BagToSet(fcom["c1"]) : ChatLoad("c1", r)
  \/ HandleCreate("c1", TRUE)
  \/ \E r \in Runs1, f \in BOOLEAN : GenerateInviteCodeServed("c1", r, f)
  \/ \E r \in Runs1 : HandleCreateInsert("c1", r)
  \/ \E r \in Runs1, f \in BOOLEAN : InsertCommunityServed("c1", r, f)
  \/ \E r \in Runs1 : HandleCreateJoin("c1", r)
  \/ \E r \in Runs1 : InsertCommunityMemberServed("c1", r, FALSE)
  \/ \E r \in Runs1 : HandleCreateDone("c1", r)
  \/ HandleCreateProject("c1")
  \/ \E r \in Runs1 : InsertProjectServed("c1", r, FALSE)
  \/ \E r \in Runs1 : HandleCreateProjectJoin("c1", r)
  \/ \E r \in Runs1 : InsertProjectMemberServed("c1", r, FALSE)
  \/ \E r \in Runs1 : HandleCreateProjectDone("c1", r)
  \/ SendMessage("c1")
  \/ \E r \in Runs1 : InsertPostServed("c1", r, FALSE)
  \/ \E r \in Runs1 : SendMessageDone("c1", r)

SpecHandlers == Init /\ [][NextHandlers]_vars

\* ------------------------------------------------------------------ claims: tables

\* C1: in every reachable state no two rows of community_members share
\* (community_id, user_id), no two rows of project_members share
\* (project_id, user_id), no two rows of startup_members share
\* (startup_id, user_id).  The requests of the create and join handlers and
\* the sign-up trigger's auto-join are among the requests of SpecMembers.
C1_MembershipPairsUnique ==
  /\ \A m, n \in community_members :
       m.community_id = n.community_id /\ m.user_id = n.user_id => m = n
  /\ \A m, n \in project_members :
       m.project_id = n.project_id /\ m.user_id = n.user_id => m = n
  /\ \A m, n \in startup_members :
       m.startup_id = n.startup_id /\ m.user_id = n.user_id => m = n

\* every table holds the rows of two users, an auto-joined row among them
C1_Witness ==
  /\ \E m, n \in community_members :
       /\ m.community_id = DefaultOf(Law)
       /\ n.community_id \notin Ids(SeedCommunities)
       /\ m.user_id = n.user_id
  /\ Cardinality(community_members) = 4
  /\ Cardinality(project_members) = 2
  /\ Cardinality(startup_members) = 2

\* C3: a request on community_members, project_members or startup_members
\* that names a user other than its authenticated caller (an insert of a row
\* for another user or for none, a delete of another user's row) leaves the
\* table unchanged: a step that changes one of the tables is no such request.
C3_OwnMembershipOnly ==
  [][ /\ community_members' # community_members =>
           /\ \A a \in Callers, u \in AnyUser, cid \in Ids(communities) :
                ApiInsertCommunityMember(a, cid, u) => SqlEq(a, u)
           /\ \A a \in Callers, m \in community_members :
                ApiDeleteCommunityMember(a, m) => SqlEq(a, m.user_id)
      /\ project_members' # project_members =>
           /\ \A a \in Callers, u \in AnyUser, pid \in Ids(projects) :
                ApiInsertProjectMember(a, pid, u, "participant") => SqlEq(a, u)
           /\ \A a \in Callers, m \in project_members :
                ApiDeleteProjectMember(a, m) => SqlEq(a, m.user_id)
      /\ startup_members' # startup_members =>
           /\ \A a \in Callers, u \in AnyUser, sid \in Ids(startups) :
                ApiInsertStartupMember(a, sid, u, "member") => SqlEq(a, u)
           /\ \A a \in Callers, m \in startup_members :
                ApiDeleteStartupMember(a, m) => SqlEq(a, m.user_id)
    ]_vars

\* a logged-in caller's delete of another user's row has just been refused,
\* and the row is still there beside the caller's own
C3_Witness ==
  /\ refused = [op |-> "delete_project_members", anon |-> FALSE]
  /\ Cardinality(project_members) = 2
  /\ Cardinality(community_members) >= 2
  /\ Cardinality(startup_members) = 2

\* C4: an insert into communities, projects or startups whose owner column
\* (creator_id, host_id, founder_id) is not the authenticated caller leaves
\* the table unchanged, and every row a request stored names a registered
\* owner.
C4_OwnerIsCaller ==
  [][ /\ \A a \in Callers, o \in AnyUser :
           ~ SqlEq(a, o) =>
             /\ \A p \in BOOLEAN, k \in Codes \cup {NULL} :
                  ApiInsertCommunity(a, p, k, o) => UNCHANGED communities
             /\ ApiInsertProject(a, o) => UNCHANGED projects
             /\ ApiInsertStartup(a, o) => UNCHANGED startups
      /\ \A c \in communities' \ communities : c.creator_id \in Ids(profiles)
      /\ \A q \in projects' \ projects : q.host_id \in Ids(profiles)
      /\ \A q \in startups' \ startups : q.founder_id \in Ids(profiles)
    ]_vars

\* a logged-in caller's insert for another owner has just been refused, and
\* each table holds a row its owner stored
C4_Witness ==
  /\ refused = [op |-> "insert_communities", anon |-> FALSE]
  /\ \E x \in communities : x.creator_id # NULL
  /\ projects # {}
  /\ startups # {}

\* ------------------------------------------------------------------ claims: pages

IsCommunityMember(cid, u) ==
  \E m \in community_members : m.community_id = cid /\ m.user_id = u

IsProjectMember(pid, u) ==
  \E m \in project_members : m.project_id = pid /\ m.user_id = u

IsStartupMember(sid, u) ==
  \E m \in startup_members : m.startup_id = sid /\ m.user_id = u

\* C2: when a logged-in user who already holds the membership row joins
\* again, through handleJoinPublic, handleJoinByCode, handleJoinProject or
\* handleJoinStartup, the membership table is unchanged and the handler
\* shows an error notification.  The insert of a repeated join is the one
\* the uniqueness constraint rejects.
C2_RejoinShowsError ==
  [][ \A c \in Clients : \A r \in BagToSet(runs[c]) :
        /\ \A f \in BOOLEAN :
             /\ r.h \in {"joinPublic", "joinByCode"}
                  /\ IsCommunityMember(r.id, r.user)
                  /\ InsertCommunityMemberServed(c, r, f)
                  => UNCHANGED community_members
             /\ r.h = "joinProject" /\ IsProjectMember(r.id, r.user)
                  /\ InsertProjectMemberServed(c, r, f)
                  => UNCHANGED project_members
             /\ r.h = "joinStartup" /\ IsStartupMember(r.id, r.user)
                  /\ InsertStartupMemberServed(c, r, f)
                  => UNCHANGED startup_members
        /\ r.status = "unique" /\ user[c] # NULL =>
             /\ HandleJoinPublicDone(c, r) => toast'[c] = "error"
             /\ HandleJoinByCodeDone(c, r) => toast'[c] = "error"
             /\ HandleJoinProjectDone(c, r) => toast'[c] = "error"
             /\ HandleJoinStartupDone(c, r) => toast'[c] = "error"
    ]_vars

\* C5: no select on communities returns a private community to a registered
\* user who has no membership row for it; the select the chat view of such
\* a community sends for such a user is answered with an error, and the
\* answer ends with the "Community not found" notification on the community
\* list.
C5_PrivateHiddenFromNonMembers ==
  /\ [](\A u \in Ids(profiles), x \in communities :
          x.is_public = FALSE /\ ~ IsCommunityMember(x.id, u)
            => x \notin SelectCommunities(u) \cup VisibleCommunities(u))
  /\ [][ \A c \in Clients : \A r \in BagToSet(fcom[c]) :
           /\ \A f \in BOOLEAN, x \in communities :
                /\ x.is_public = FALSE
                /\ r.cid = x.id
                /\ ~ IsCommunityMember(x.id, r.user)
                /\ ChatLoadServed(c, r, f)
                => \E st \in {"no_rows", "transport"} :
                     fcom'[c] = Replace(fcom[c], r,
                                  [r EXCEPT !.at = "reply", !.status = st])
           /\ r.status \notin {"none", "ok"} /\ ChatLoad(c, r)
                => route'[c] = Page("community") /\ toast'[c] = "not_found"
      ]_vars

\* a member of the seeded community, not of the private one another user
\* stored and joined, has the private community's chat open, and the select
\* of the community has been answered with no row
C5_Witness ==
  /\ user["c1"] = 2
  /\ IsCommunityMember(DefaultOf(Law), 2)
  /\ \E x \in communities :
       /\ x.is_public = FALSE
       /\ x.creator_id = 1
       /\ IsCommunityMember(x.id, 1)
       /\ ~ IsCommunityMember(x.id, 2)
       /\ route["c1"] = Chat(x.id)
       /\ \E r \in BagToSet(fcom["c1"]) :
            r.cid = x.id /\ r.user = 2 /\ r.at = "reply" /\ r.status = "no_rows"

\* C6: when a logged-in user who is not a member submits the invite code of
\* a private community and no request fails, the select of handleJoinByCode
\* returns that community, the handler goes on to the membership insert for
\* it, which stores the row, and opens that community's chat; it does not
\* show "Invalid Code".
C6_JoinPrivateByCode ==
  [][ \A c \in Clients : \A r \in BagToSet(runs[c]) :
        /\ \A x \in communities :
             /\ x.is_public = FALSE
             /\ SqlEq(x.invite_code, r.code)
             /\ r.auth # NULL
             /\ ~ IsCommunityMember(x.id, r.auth)
             /\ SelectByCodeServed(c, r, FALSE)
             => runs'[c] = Replace(runs[c], r,
                             [ServedAs(r, "ok") EXCEPT !.id = x.id])
        /\ r.status = "ok" /\ HandleJoinByCodeInsert(c, r)
             => /\ toast'[c] # "invalid_code"
                /\ runs'[c] = Replace(runs[c], r, Sent(r, "join", user[c]))
        /\ r.h = "joinByCode" /\ r.auth = r.user
             /\ InsertCommunityMemberServed(c, r, FALSE)
             => \E m \in community_members' :
                  m.community_id = r.id /\ m.user_id = r.user
        /\ user[c] # NULL /\ HandleJoinByCodeDone(c, r)
             => route'[c] = Chat(r.id)
    ]_vars

\* C7: the codes generate_invite_code has returned are pairwise distinct.
C7_ReturnedCodesDistinct ==
  \A i, j \in 1..Len(returned) : i # j => returned[i] # returned[j]

\* C8: every community stored by handleCreate holds an invite_code, and no
\* two communities hold the same invite_code.
C8_InviteCodePresentAndUnique ==
  /\ \A x \in communities : x.id \in viaCreate => x.invite_code # NULL
  /\ \A x, y \in communities : x # y => ~ SqlEq(x.invite_code, y.invite_code)

\* C9: a create handler's step that shows the success notification leaves
\* the new row with the handler's user as its owner and the membership row
\* of (new entity, that user).
C9_SuccessMeansOwnerIsMember ==
  [][ \A c \in Clients : \A r \in BagToSet(runs[c]) :
        /\ HandleCreateDone(c, r) /\ toast'[c] = "success"
             => /\ \E x \in communities' :
                     x.id = r.id /\ x.creator_id = r.user
                /\ \E m \in community_members' :
                     m.community_id = r.id /\ m.user_id = r.user
        /\ HandleCreateProjectDone(c, r) /\ toast'[c] = "success"
             => /\ \E x \in projects' : x.id = r.id /\ x.host_id = r.user
                /\ \E m \in project_members' :
                     m.project_id = r.id /\ m.user_id = r.user
        /\ HandleCreateStartupDone(c, r) /\ toast'[c] = "success"
             => /\ \E x \in startups' : x.id = r.id /\ x.founder_id = r.user
                /\ \E m \in startup_members' :
                     m.startup_id = r.id /\ m.user_id = r.user
    ]_vars

\* C10: when no request fails, handleCreate with isPublic = false and a
\* code no community holds stores the community row (is_public = false,
\* creator_id = the user) and goes on to the creator's membership insert;
\* it shows no error notification.
C10_CreatePrivate ==
  [][ \A c \in Clients : \A r \in BagToSet(runs[c]) :
        /\ r.isPublic = FALSE
        /\ r.code # NULL
        /\ r.auth = r.user
        /\ \A x \in communities : ~ SqlEq(x.invite_code, r.code)
        => /\ InsertCommunityServed(c, r, FALSE)
                => /\ \E x \in communities' \ communities :
                        x.is_public = FALSE /\ x.creator_id = r.user
                   /\ \E a \in BagToSet(runs'[c]) :
                        a.at = "insert" /\ a.served /\ a.status = "ok"
           /\ r.status # "transport" /\ HandleCreateJoin(c, r)
                => /\ toast'[c] # "error"
                   /\ runs'[c] = Replace(runs[c], r, Sent(r, "join", user[c]))
    ]_vars

\* ------------------------------------------------------------------ claims: sign-up

\* t occurs in s as a run of consecutive characters
Contains(s, t) ==
  \E i \in 0..(Len(s) - Len(t)) : SubSeq(s, i + 1, i + Len(t)) = t

\* the default communities whose branch_category equals b or contains b,
\* letter case aside
DefaultsNaming(b) ==
  { c \in communities :
      /\ c.is_default = TRUE
      /\ c.branch_category # NullText
      /\ \/ c.branch_category = b
         \/ Contains(Fold(c.branch_category), Fold(b)) }

\* C13: a sign-up stores the profile and adds at most one membership row,
\* for the new user; it adds one whenever a default community's
\* branch_category equals the profile's branch or contains it, letter case
\* aside, the community joined being one of those; it adds none when there
\* is no such community.
C13_AutoJoinByBranch ==
  [][ \A u \in Users, mb \in Branches :
        SignUp(u, mb) =>
          LET b   == (CHOOSE p \in profiles' : p.id = u).branch
              new == community_members' \ community_members
          IN /\ u \in Ids(profiles')
             /\ Cardinality(new) <= 1
             /\ DefaultsNaming(b) # {} => Cardinality(new) = 1
             /\ \A m \in new :
                  m.user_id = u /\ m.community_id \in Ids(DefaultsNaming(b))
    ]_vars

\* ------------------------------------------------------------------ claims: updates

\* C14: an update of a profile, community, project or startup row by a
\* caller who is not the row's owner (profile id, creator_id, host_id,
\* founder_id), or by no one, leaves the table unchanged; and no step
\* replaces a row by one of the same id with another owner.
C14_OwnerOnlyUpdates ==
  [][ /\ profiles' # profiles =>
           \A a \in Callers, p \in profiles, i \in AnyUser, b \in {General, Law} :
             ApiUpdateProfile(a, p, i, b) => SqlEq(a, p.id) /\ i = p.id
      /\ communities' # communities =>
           /\ \A a \in Callers, x \in communities, o \in AnyUser, p \in BOOLEAN :
                ApiUpdateCommunity(a, x, o, p) => SqlEq(a, x.creator_id)
           /\ \A x \in communities, y \in communities' :
                x.id = y.id => x.creator_id = y.creator_id
      /\ projects' # projects =>
           /\ \A a \in Callers, x \in projects, o \in AnyUser :
                \A s \in {"open", "closed"} :
                  ApiUpdateProject(a, x, o, s) => SqlEq(a, x.host_id)
           /\ \A x \in projects, y \in projects' :
                x.id = y.id => x.host_id = y.host_id
      /\ startups' # startups =>
           /\ \A a \in Callers, x \in startups, o \in AnyUser :
                \A s \in {"active", "closed"} :
                  ApiUpdateStartup(a, x, o, s) => SqlEq(a, x.founder_id)
           /\ \A x \in startups, y \in startups' :
                x.id = y.id => x.founder_id = y.founder_id
    ]_vars

\* a logged-in caller's update of another owner's project has just been
\* refused; the owners have updated a profile, a project and a startup of
\* their own, and the two users own a community, the project and the
\* startup between them
C14_Witness ==
  /\ refused = [op |-> "update_projects", anon |-> FALSE]
  /\ \E p \in profiles : p.branch = Law
  /\ \E x \in communities, y \in projects, z \in startups :
       /\ x.creator_id # NULL
       /\ y.host_id # z.founder_id
       /\ y.status = "closed"
       /\ z.status = "closed"

\* ------------------------------------------------------------------ claims: reading memberships

C20_HostRowIffHost ==
  \A m \in project_members :
    m.participation_type = "host"
      <=> \E p \in projects : p.id = m.project_id /\ p.host_id = m.user_id

\* ------------------------------------------------------------------ claims: lists

\* C17: when fetchCommunities is answered without an error, the answer is
\* the set of all communities with is_public true, and publicCommunities
\* becomes the answer; when fetchUserCommunities is answered without an
\* error, the answer is the set of all communities in which the user has a
\* membership row, the private ones included, and userCommunities becomes
\* the answer.
C17_ListsComplete ==
  [][ \A r \in BagToSet(fc["c1"]) :
        /\ FetchCommunitiesServed("c1", r, FALSE) =>
             fc'["c1"] =
               Replace(fc["c1"], r,
                       Answer(r, FALSE, {x \in communities : x.is_public = TRUE}))
        /\ FetchCommunitiesReceived("c1", r) /\ r.ok =>
             publicCommunities'["c1"] = r.data
        /\ FetchUserCommunitiesServed("c1", r, FALSE) =>
             fc'["c1"] =
               Replace(fc["c1"], r,
                       Answer(r, FALSE, {x \in communities :
                                           IsCommunityMember(x.id, r.user)}))
        /\ FetchUserCommunitiesReceived("c1", r) /\ r.ok =>
             userCommunities'["c1"] = r.data
    ]_vars

\* ------------------------------------------------------------------ claims: chat

\* C16: every row added to community_posts names as its user an account that
\* has a membership row in the post's community when the insert is served;
\* a message sent from the chat view by a logged-in user without a
\* membership in the community of the view adds no row.
C16_PostsByMembersOnly ==
  [][ community_posts' # community_posts =>
        /\ \A p \in community_posts' \ community_posts :
             IsCommunityMember(p.community_id, p.user_id)
        /\ \A r \in BagToSet(runs["c1"]), f \in BOOLEAN :
             InsertPostServed("c1", r, f) => IsCommunityMember(r.id, r.user)
    ]_vars

\* the message of a logged-in non-member has just been refused, in a chat
\* that holds a member's post
C16_Witness ==
  \E r \in BagToSet(runs["c1"]) :
    /\ r.h = "send" /\ r.served /\ r.status = "rls"
    /\ r.auth = r.user
    /\ r.user = user["c1"]
    /\ route["c1"] = Chat(r.id)
    /\ ~ IsCommunityMember(r.id, r.user)
    /\ \E p \in community_posts : p.community_id = r.id

\* data is what one fetchPosts query r returns from the table as it is: the
\* posts of the queried community the caller may read, each once, in
\* non-decreasing order of created_at; for a member of the community these
\* are all its posts
FullResult(data, r) ==
  /\ {data[i] : i \in 1..Len(data)} \subseteq
       {p \in community_posts : p.community_id = r.cid}
  /\ \A p \in community_posts :
       p.community_id = r.cid /\ IsCommunityMember(r.cid, r.user)
         => \E i \in 1..Len(data) : data[i] = p
  /\ \A i, j \in 1..Len(data) :
       i < j => data[i] # data[j] /\ data[i].created_at <= data[j].created_at

\* C19: the displayed posts list changes only by becoming empty or by
\* becoming one received fetchPosts result; every result is the full result
\* of its query when it is served; the handling of an insert notification
\* leaves the list as it is and sends a query.
C19_PostsAreOneQueryResult ==
  [][ /\ posts'["c1"] # posts["c1"] =>
           posts'["c1"] = <<>> \/ posts'["c1"] \in BagToSet(fr["c1"])
      /\ \A r \in BagToSet(fp["c1"]) :
           FetchPostsServed("c1", r, FALSE) =>
             \E data \in BagToSet(fr'["c1"]) :
               fr'["c1"] = Add(fr["c1"], data) /\ FullResult(data, r)
      /\ OnInsert("c1") =>
           /\ posts' = posts
           /\ fp'["c1"] = Add(fp["c1"], PostsRequest(route["c1"].id, user["c1"]))
    ]_vars

\* the list shows two posts, the earlier first, after a notification has been
\* handled and its query answered
C19_Witness ==
  /\ Len(posts["c1"]) >= 2
  /\ posts["c1"][1].created_at < posts["c1"][2].created_at
  /\ sub["c1"] = "on"
  /\ notes["c1"] = 0 /\ fp["c1"] = EmptyBag /\ fr["c1"] = EmptyBag

\* client c, logged in as a member of community cid, has the chat view of
\* cid open
ViewOpen(c, cid) ==
  /\ route[c] = Chat(cid)
  /\ user[c] # NULL
  /\ IsCommunityMember(cid, user[c])

\* C15: once a post of community C is stored while a logged-in member has
\* the chat view of C open, the post is eventually in the displayed list,
\* unless the view is closed.
C15_PostsEventuallyShown ==
  \A n \in 1..MaxPosts :
    (\E p \in community_posts : p.id = n /\ ViewOpen("c1", p.community_id))
      ~> (\E p \in community_posts :
            /\ p.id = n
            /\ \/ ~ ViewOpen("c1", p.community_id)
               \/ \E i \in 1..Len(posts["c1"]) : posts["c1"][i] = p)

\* ------------------------------------------------------------------ claims: login check

\* C11: a step a handler takes while no user is logged in sends no request:
\* a handler that starts does what a failed requireLogin does and nothing
\* else, sendMessage does not get to its insert, and no handler goes on to
\* the request that follows one of its awaits.
C11_LoggedOutSendsNothing ==
  [][ user["c1"] = NULL =>
        /\ \A p \in BOOLEAN : HandleCreate("c1", p) => RequireLoginFails("c1")
        /\ \A k \in Codes : HandleJoinByCode("c1", k) => RequireLoginFails("c1")
        /\ \A cid \in Acted(FALSE) :
             HandleJoinPublic("c1", cid) => RequireLoginFails("c1")
        /\ HandleCreateProject("c1") => RequireLoginFails("c1")
        /\ HandleCreateStartup("c1") => RequireLoginFails("c1")
        /\ \A pid \in Ids(projects) :
             HandleJoinProject("c1", pid) => RequireLoginFails("c1")
        /\ \A sid \in Ids(startups) :
             HandleJoinStartup("c1", sid) => RequireLoginFails("c1")
        /\ ~ SendMessage("c1")
        /\ \A r \in BagToSet(runs["c1"]) :
             /\ ~ HandleCreateInsert("c1", r)
             /\ r.status = "ok" =>
                  /\ ~ HandleCreateJoin("c1", r)
                  /\ ~ HandleJoinByCodeInsert("c1", r)
                  /\ ~ HandleCreateProjectJoin("c1", r)
                  /\ ~ HandleCreateStartupJoin("c1", r)
    ]_vars

\* ------------------------------------------------------------------ claims: errors

\* the notifications that report an error
ErrorToasts == {"error", "not_found", "invalid_code"}

\* C12: whenever the request of a step of a handler or fetch of the
\* Community page, the Connect page or the chat view is answered with an
\* error, the step that handles the answer shows an error notification.
C12_ErrorsAreShown ==
  [][ /\ \A r \in BagToSet(runs["c1"]) :
           r.served /\ r.status # "ok" /\
             (\/ HandleCreateInsert("c1", r)
              \/ HandleCreateJoin("c1", r)
              \/ HandleCreateDone("c1", r)
              \/ HandleJoinByCodeInsert("c1", r)
              \/ HandleJoinByCodeDone("c1", r)
              \/ HandleJoinPublicDone("c1", r)
              \/ HandleCreateProjectJoin("c1", r)
              \/ HandleCreateProjectDone("c1", r)
              \/ HandleCreateStartupJoin("c1", r)
              \/ HandleCreateStartupDone("c1", r)
              \/ HandleJoinProjectDone("c1", r)
              \/ HandleJoinStartupDone("c1", r)
              \/ SendMessageDone("c1", r))
             => toast'["c1"] \in ErrorToasts
      /\ \A r \in BagToSet(fcom["c1"]) :
           r.status \notin {"none", "ok"} /\ ChatLoad("c1", r)
             => toast'["c1"] \in ErrorToasts
      /\ \A r \in BagToSet(fjs["c1"]) :
           ~ r.ok /\ (\/ FetchJoinedProjectsReceived("c1", r)
                      \/ FetchJoinedStartupsReceived("c1", r))
             => toast'["c1"] \in ErrorToasts
      /\ \A r \in BagToSet(fc["c1"]) :
           ~ r.ok /\ (\/ FetchCommunitiesReceived("c1", r)
                      \/ FetchUserCommunitiesReceived("c1", r))
             => toast'["c1"] \in ErrorToasts
    ]_vars

\* ------------------------------------------------------------------ claims: chat list over time

\* C21: while the chat view stays on its community, a post that is in the
\* displayed list is still in it after every step.
C21_ShownPostsStay ==
  [][ route["c1"].page = "chat" /\ route'["c1"] = route["c1"] =>
        \A i \in 1..Len(posts["c1"]) :
          \E j \in 1..Len(posts'["c1"]) : posts'["c1"][j] = posts["c1"][i]
    ]_vars

\* C22: in every state, every post of the chat view's displayed list belongs
\* to the community of the route.
C22_ShownPostsOfRoute ==
  route["c1"].page = "chat" =>
    \A i \in 1..Len(posts["c1"]) :
      posts["c1"][i].community_id = route["c1"].id

\* ------------------------------------------------------------------ claims: joined sets

\* C23: on the Connect page, joinedProjectIds holds only projects in which
\* the logged-in user has a project_members row and joinedStartupIds only
\* startups in which that user has a startup_members row; with no user
\* logged in both sets are empty.
C23_JoinedSetsOfCurrentUser ==
  route["c1"].page = "connect" =>
    /\ \A pid \in joinedProjectIds["c1"] :
         user["c1"] # NULL /\ IsProjectMember(pid, user["c1"])
    /\ \A sid \in joinedStartupIds["c1"] :
         user["c1"] # NULL /\ IsStartupMember(sid, user["c1"])

\* C24: on the Connect page, while the same user stays logged in, the id of
\* a project (startup) the user has joined, once in joinedProjectIds
\* (joinedStartupIds), is still in the set after every step, the receipt of
\* an answer of fetchJoinedStatus included: the join button of that entity is
\* not offered again.
C24_JoinedIdsStay ==
  [][ /\ route["c1"].page = "connect"
      /\ route'["c1"] = route["c1"]
      /\ user["c1"] # NULL
      /\ user'["c1"] = user["c1"]
      => /\ \A pid \in joinedProjectIds["c1"] :
              IsProjectMember(pid, user["c1"]) => pid \in joinedProjectIds'["c1"]
         /\ \A sid \in joinedStartupIds["c1"] :
              IsStartupMember(sid, user["c1"]) => sid \in joinedStartupIds'["c1"]
    ]_vars

====
